---- MODULE Spec2Model ----
(***************************************************************************)
(* p5.millefeuille layer system: Layer, Compositor and LayerSystem as a    *)
(* state machine.  Objects are identified by their layer id; the host      *)
(* (p5 instance) is the record p.  Opacity is counted in hundredths.       *)
(***************************************************************************)
EXTENDS Integers, Sequences, FiniteSets, TLC

VARIABLES
    p,                \* host surface: width, height, pixel density
    layers,           \* LayerSystem.layers: id -> Layer
    layerOrder,       \* iteration (insertion) order of the layers Map
    layerNames,       \* LayerSystem.layerNames: name -> id
    layerIdCounter,   \* LayerSystem.layerIdCounter
    activeLayerId,    \* LayerSystem.activeLayerId
    autoResize,       \* LayerSystem.autoResize
    lastCanvas,       \* _lastCanvasWidth, _lastCanvasHeight, _lastPixelDensity
    compositor,       \* Compositor: bufferA, bufferB, _bufferDensity, shaderLoaded
    ui,               \* LayerSystem.ui: is a LayerUI attached
    panel,            \* the LayerUI object: selection, rows, thumbnail bookkeeping
    _layerSystem,     \* p._layerSystem: does the p5 instance hold the LayerSystem
    canvas,           \* image last blitted to the main surface
    detached,         \* Layer objects removed from the system, still held by the caller
    lastRender,       \* the host surface and autoResize at the last call of render(),
                      \* and, in before, at the call of render() before it
    lastOp            \* the call made last: its arguments, its result and what it did

vars == <<p, layers, layerOrder, layerNames, layerIdCounter, activeLayerId,
          autoResize, lastCanvas, compositor, ui, panel, _layerSystem, canvas, detached,
          lastRender, lastOp>>

\* ---------------------------------------------------------------- bounds
MaxLayers == 3
MaxZ == 2
MaxOps == 6

\* ---------------------------------------------------------------- values
null == -1

NullFb == [kind |-> "null"]

\* a host framebuffer; begun: it is the render target (begin() without end()),
\* drawn: content was drawn into it, removed: remove() was called
Framebuffer(w, h, d) ==
    [kind |-> "fb", width |-> w, height |-> h, density |-> d,
     begun |-> FALSE, drawn |-> FALSE, removed |-> FALSE]

BlendModes ==
    <<"NORMAL", "MULTIPLY", "SCREEN", "ADD", "SUBTRACT", "OVERLAY", "SOFT_LIGHT",
      "HARD_LIGHT", "COLOR_DODGE", "COLOR_BURN", "DARKEN", "LIGHTEN",
      "DIFFERENCE", "EXCLUSION">>

BlendModeValues == {BlendModes[i] : i \in 1..Len(BlendModes)}

\* mutant: the opcodes of OVERLAY and SOFT_LIGHT are exchanged
getBlendModeIndex_exchanged(mode) ==
    CASE mode = "NORMAL" -> 0
      [] mode = "MULTIPLY" -> 1
      [] mode = "SCREEN" -> 2
      [] mode = "ADD" -> 3
      [] mode = "SUBTRACT" -> 4
      [] mode = "OVERLAY" -> 6
      [] mode = "SOFT_LIGHT" -> 5
      [] mode = "HARD_LIGHT" -> 7
      [] mode = "COLOR_DODGE" -> 8
      [] mode = "COLOR_BURN" -> 9
      [] mode = "DARKEN" -> 10
      [] mode = "LIGHTEN" -> 11
      [] mode = "DIFFERENCE" -> 12
      [] mode = "EXCLUSION" -> 13
      [] OTHER -> 0

getBlendModeIndex(mode) ==
    CASE mode = "NORMAL" -> 0
      [] mode = "MULTIPLY" -> 1
      [] mode = "SCREEN" -> 2
      [] mode = "ADD" -> 3
      [] mode = "SUBTRACT" -> 4
      [] mode = "OVERLAY" -> 5
      [] mode = "SOFT_LIGHT" -> 6
      [] mode = "HARD_LIGHT" -> 7
      [] mode = "COLOR_DODGE" -> 8
      [] mode = "COLOR_BURN" -> 9
      [] mode = "DARKEN" -> 10
      [] mode = "LIGHTEN" -> 11
      [] mode = "DIFFERENCE" -> 12
      [] mode = "EXCLUSION" -> 13
      [] OTHER -> 0

\* a layer reference as the caller passes it: a number, a string or anything else
IdRef(n) == [kind |-> "number", id |-> n, name |-> ""]
NameRef(s) == [kind |-> "string", id |-> null, name |-> s]
OtherRef == [kind |-> "other", id |-> null, name |-> ""]

\* options of createLayer: given is the set of keys the caller supplied
DEFAULT_LAYER_OPTIONS ==
    [given |-> {}, visible |-> TRUE, opacity |-> 100, blendMode |-> "NORMAL",
     zIndex |-> null, width |-> null, height |-> null, density |-> null]

\* template literal `Layer ${id}`
DefaultName(id) == "Layer " \o ToString(id)

\* ---------------------------------------------------------------- the state as one value
State ==
    [p |-> p, layers |-> layers, layerOrder |-> layerOrder, layerNames |-> layerNames,
     layerIdCounter |-> layerIdCounter, activeLayerId |-> activeLayerId,
     autoResize |-> autoResize, lastCanvas |-> lastCanvas, compositor |-> compositor,
     ui |-> ui, panel |-> panel, _layerSystem |-> _layerSystem, canvas |-> canvas, detached |-> detached, lastRender |-> lastRender,
     log |-> lastOp]

\* the record of one call: what was called and what it did.
\* active: activeLayerId when the call was made; target: the layer the reference
\* resolved to; ret: the layer returned; events: the calls made on layers, the UI
\* and the host's framebuffers, in order; step: the number of calls made so far;
\* disposed: dispose() was called, now or earlier
NewLog(op, ref, args) ==
    [op |-> op, ref |-> ref, args |-> args, active |-> null, target |-> null,
     ret |-> null, events |-> <<>>, threw |-> FALSE, step |-> 0, disposed |-> FALSE]

Called(s, op, ref, args) ==
    [s EXCEPT !.log = [NewLog(op, ref, args) EXCEPT !.step = s.log.step + 1,
                                                    !.active = s.activeLayerId,
                                                    !.disposed = s.log.disposed]]

Resolved(s, id) == [s EXCEPT !.log.target = id]

Event(s, what, id) == [s EXCEPT !.log.events = Append(@, <<what, id>>)]

Returned(s, v) == [s EXCEPT !.log.ret = v]

Threw(s) == [s EXCEPT !.log.threw = TRUE]

\* ---------------------------------------------------------------- Layer
\* mutant: only the upper end of the range is enforced
_clampOpacity_upperOnly(value) == IF value < 100 THEN value ELSE 100

_clampOpacity(value) ==
    LET min1 == IF value < 100 THEN value ELSE 100
    IN  IF min1 > 0 THEN min1 ELSE 0

\* p.createFramebuffer inside try/catch: null when the host throws
_createFramebuffer(layer, ok) ==
    IF ok THEN Framebuffer(layer.width, layer.height, layer.density) ELSE NullFb

\* mutant: a layer has a size of its own only when a given measure differs from
\* the host's
Layer_constructor_comparesHost(host, id, name, options, ok) ==
    LET has(k) == k \in options.given
        size == [width |-> IF has("width") THEN options.width ELSE host.width,
                 height |-> IF has("height") THEN options.height ELSE host.height,
                 density |-> IF has("density") THEN options.density ELSE host.density]
        layer ==
            [id |-> id,
             name |-> IF name # "" THEN name ELSE DefaultName(id),
             visible |-> IF has("visible") THEN options.visible
                         ELSE DEFAULT_LAYER_OPTIONS.visible,
             opacity |-> _clampOpacity(IF has("opacity") THEN options.opacity
                                       ELSE DEFAULT_LAYER_OPTIONS.opacity),
             blendMode |-> IF has("blendMode") THEN options.blendMode
                           ELSE DEFAULT_LAYER_OPTIONS.blendMode,
             zIndex |-> IF has("zIndex") THEN options.zIndex ELSE id,
             width |-> size.width, height |-> size.height, density |-> size.density,
             customSize |-> \/ size.width # host.width
                            \/ size.height # host.height
                            \/ size.density # host.density,
             mask |-> null,
             hasBeenDrawnTo |-> FALSE,
             framebuffer |-> NullFb]
    IN  [layer EXCEPT !.framebuffer = _createFramebuffer(layer, ok)]

\* new Layer(p, id, name, options); the caller checks framebuffer for the throw
Layer_constructor(host, id, name, options, ok) ==
    LET has(k) == k \in options.given
        size == [width |-> IF has("width") THEN options.width ELSE host.width,
                 height |-> IF has("height") THEN options.height ELSE host.height,
                 density |-> IF has("density") THEN options.density ELSE host.density]
        layer ==
            [id |-> id,
             name |-> IF name # "" THEN name ELSE DefaultName(id),
             visible |-> IF has("visible") THEN options.visible
                         ELSE DEFAULT_LAYER_OPTIONS.visible,
             opacity |-> _clampOpacity(IF has("opacity") THEN options.opacity
                                       ELSE DEFAULT_LAYER_OPTIONS.opacity),
             blendMode |-> IF has("blendMode") THEN options.blendMode
                           ELSE DEFAULT_LAYER_OPTIONS.blendMode,
             zIndex |-> IF has("zIndex") THEN options.zIndex ELSE id,
             width |-> size.width, height |-> size.height, density |-> size.density,
             customSize |-> has("width") \/ has("height") \/ has("density"),
             mask |-> null,
             hasBeenDrawnTo |-> FALSE,
             framebuffer |-> NullFb]
    IN  [layer EXCEPT !.framebuffer = _createFramebuffer(layer, ok)]

Layer_show(layer) == [layer EXCEPT !.visible = TRUE]

Layer_hide(layer) == [layer EXCEPT !.visible = FALSE]

Layer_setOpacity(layer, opacity) == [layer EXCEPT !.opacity = _clampOpacity(opacity)]

\* mutant: an invalid mode is refused and the stored mode kept
Layer_setBlendMode_keeps(layer, mode) ==
    IF mode \notin BlendModeValues
    THEN layer
    ELSE [layer EXCEPT !.blendMode = mode]

Layer_setBlendMode(layer, mode) ==
    IF mode \notin BlendModeValues
    THEN [layer EXCEPT !.blendMode = "NORMAL"]
    ELSE [layer EXCEPT !.blendMode = mode]

\* mutant: the zIndex stored is one more than the zIndex given
Layer_setZIndex_plusOne(layer, zIndex) == [layer EXCEPT !.zIndex = zIndex + 1]

Layer_setZIndex(layer, zIndex) == [layer EXCEPT !.zIndex = zIndex]

\* maskSource null stands for a falsy source
Layer_setMask(layer, maskSource) ==
    IF maskSource = null THEN layer ELSE [layer EXCEPT !.mask = maskSource]

Layer_clearMask(layer) == [layer EXCEPT !.mask = null]

\* mutant: the new framebuffer makes the layer one that was not drawn to
Layer_resize_resetsDrawn(layer, host, width, height, density, ok) ==
    LET sized == [layer EXCEPT !.width = width, !.height = height, !.density = density]
        matchesCanvas == /\ width = host.width
                         /\ height = host.height
                         /\ density = host.density
    IN  [sized EXCEPT !.customSize = ~matchesCanvas,
                      !.hasBeenDrawnTo = FALSE,
                      !.framebuffer = _createFramebuffer(sized, ok)]

\* mutant: the layer keeps its customSize
Layer_resize_keepsFlag(layer, host, width, height, density, ok) ==
    LET sized == [layer EXCEPT !.width = width, !.height = height, !.density = density]
    IN  [sized EXCEPT !.framebuffer = _createFramebuffer(sized, ok)]

Layer_resize(layer, host, width, height, density, ok) ==
    LET sized == [layer EXCEPT !.width = width, !.height = height, !.density = density]
        matchesCanvas == /\ width = host.width
                         /\ height = host.height
                         /\ density = host.density
    IN  [sized EXCEPT !.customSize = ~matchesCanvas,
                      !.framebuffer = _createFramebuffer(sized, ok)]

Layer_begin(layer) ==
    IF layer.framebuffer = NullFb THEN layer
    ELSE [layer EXCEPT !.framebuffer.begun = TRUE]

Layer_end(layer) ==
    IF layer.framebuffer = NullFb THEN layer
    ELSE [layer EXCEPT !.framebuffer.begun = FALSE,
                       !.framebuffer.drawn = TRUE,
                       !.hasBeenDrawnTo = TRUE]

Layer_dispose(layer) == [layer EXCEPT !.framebuffer = NullFb]

\* ---------------------------------------------------------------- LayerSystem
\* mutant: a string that reads as a number is looked up as an id as well
_getLayerById_coerces(s, ref) ==
    IF ref.kind = "number"
    THEN IF ref.id \in DOMAIN s.layers THEN ref.id ELSE null
    ELSE IF ref.kind = "string" /\ ref.name \in DOMAIN s.layerNames
    THEN IF s.layerNames[ref.name] \in DOMAIN s.layers THEN s.layerNames[ref.name]
         ELSE null
    ELSE IF ref.kind = "string" /\ \E id \in DOMAIN s.layers : ToString(id) = ref.name
    THEN CHOOSE id \in DOMAIN s.layers : ToString(id) = ref.name
    ELSE null

_getLayerById(s, ref) ==
    IF ref.kind = "number"
    THEN IF ref.id \in DOMAIN s.layers THEN ref.id ELSE null
    ELSE IF ref.kind = "string" /\ ref.name \in DOMAIN s.layerNames
         THEN IF s.layerNames[ref.name] \in DOMAIN s.layers
              THEN s.layerNames[ref.name] ELSE null
         ELSE null

\* Map.prototype.delete
MapDelete(m, k) == [x \in DOMAIN m \ {k} |-> m[x]]

\* Map.prototype.set
MapSet(m, k, v) == [x \in DOMAIN m \cup {k} |-> IF x = k THEN v ELSE m[x]]

SeqDelete(seq, v) == SelectSeq(seq, LAMBDA x : x # v)

\* ---------------------------------------------------------------- LayerUI, thumbnails
\* options of createUI that the thumbnail bookkeeping reads; thumbnailUpdateEvery
\* is left at 0
DEFAULT_UI_OPTIONS == [thumbnailAutoUpdate |-> FALSE]

\* new LayerUI(layerSystem, options). layerElements: the ids that have a row;
\* dirty: _dirtyThumbnailLayerIds in insertion order; cache: id -> the entry has an
\* image; flushHandle: _thumbnailFlushHandle is not null; callbacks: the flush
\* callbacks the host has been handed and has neither run nor cancelled
LayerUI_constructor(options) ==
    [options |-> options, selectedLayerId |-> null, layerElements |-> {},
     dirty |-> <<>>, captureNeeded |-> {}, cache |-> [x \in {} |-> FALSE],
     flushHandle |-> FALSE, callbacks |-> 0]

Range(seq) == {seq[i] : i \in 1..Len(seq)}

\* Set.prototype.add, the set kept in insertion order
SetAdd(seq, x) == IF x \in Range(seq) THEN seq ELSE Append(seq, x)

RECURSIVE SetAddAll(_, _)
SetAddAll(seq, xs) ==
    IF xs = <<>> THEN seq ELSE SetAddAll(SetAdd(seq, Head(xs)), Tail(xs))

\* mutant: a flush is requested although one is outstanding
LayerUI__scheduleThumbnailFlush_again(s) ==
    IF s.panel.dirty = <<>> THEN s
    ELSE [Event(s, "ui.requestFlush", null)
             EXCEPT !.panel.flushHandle = TRUE, !.panel.callbacks = @ + 1]

LayerUI__scheduleThumbnailFlush(s) ==
    IF s.panel.flushHandle \/ s.panel.dirty = <<>> THEN s
    ELSE [Event(s, "ui.requestFlush", null)
             EXCEPT !.panel.flushHandle = TRUE, !.panel.callbacks = @ + 1]

\* cacheEntry && cacheEntry.image
HasThumbnail(s, id) == IF id \in DOMAIN s.panel.cache THEN s.panel.cache[id] ELSE FALSE

LayerUI__markThumbnailsDirty(s, layerIds, needsCapture) ==
    LET isUpdateFrame == s.panel.options.thumbnailAutoUpdate /\ needsCapture
        Marked(id) == /\ id # null
                      /\ ~(~isUpdateFrame /\ HasThumbnail(s, id) /\ needsCapture)
        marked == SelectSeq(layerIds, Marked)
        shouldSchedule ==
            \E i \in 1..Len(marked) :
                isUpdateFrame \/ (~HasThumbnail(s, marked[i]) /\ needsCapture)
        s1 == [s EXCEPT !.panel.dirty = SetAddAll(@, marked),
                        !.panel.captureNeeded =
                            IF needsCapture THEN @ \cup Range(marked) ELSE @]
    IN  IF shouldSchedule THEN LayerUI__scheduleThumbnailFlush(s1) ELSE s1

\* ui.scheduleThumbnailUpdate(layer.id, { needsCapture: true })
UI_scheduleThumbnailUpdate(s, id) ==
    LayerUI__markThumbnailsDirty(Event(s, "ui.scheduleThumbnailUpdate", id),
                                 <<id>>, TRUE)

\* mutant: the guard for "nothing active" is lost and the UI is notified anyway
LayerSystem_end_unguarded(s) ==
    LET id == s.activeLayerId
        ended == IF id \in DOMAIN s.layers
                 THEN Event([s EXCEPT !.layers[id] = Layer_end(@)], "Layer.end", id)
                 ELSE s
        told == IF s.ui THEN UI_scheduleThumbnailUpdate(ended, id) ELSE ended
    IN  [told EXCEPT !.activeLayerId = null]

LayerSystem_end(s) ==
    IF s.activeLayerId = null THEN s
    ELSE LET id == s.activeLayerId
             ended == IF id \in DOMAIN s.layers
                      THEN LET s1 == Event([s EXCEPT !.layers[id] = Layer_end(@)],
                                           "Layer.end", id)
                           IN  IF s.ui THEN UI_scheduleThumbnailUpdate(s1, id) ELSE s1
                      ELSE s
         IN  [ended EXCEPT !.activeLayerId = null]

\* mutant: a name that is registered already keeps its first registration
LayerSystem_createLayer_firstWins(s, name, options, ok) ==
    LET id == s.layerIdCounter
        s1 == [s EXCEPT !.layerIdCounter = @ + 1]
        layerName == IF name # "" THEN name ELSE DefaultName(id)
        layer == Layer_constructor(s.p, id, layerName, options, ok)
    IN  IF layer.framebuffer = NullFb THEN Threw(s1)
        ELSE Returned([s1 EXCEPT !.layers = MapSet(@, id, layer),
                                 !.layerOrder = Append(@, id),
                                 !.layerNames = IF layerName \in DOMAIN @ THEN @
                                                ELSE MapSet(@, layerName, id)],
                      id)

\* mutant: the id is the number of layers in the map, not a counter
LayerSystem_createLayer_sizeAsId(s, name, options, ok) ==
    LET id == Cardinality(DOMAIN s.layers)
        s1 == [s EXCEPT !.layerIdCounter = @ + 1]
        layerName == IF name # "" THEN name ELSE DefaultName(id)
        layer == Layer_constructor(s.p, id, layerName, options, ok)
    IN  IF layer.framebuffer = NullFb THEN Threw(s1)
        ELSE Returned([s1 EXCEPT !.layers = MapSet(@, id, layer),
                                 !.layerOrder = IF id \in DOMAIN s.layers THEN @
                                                ELSE Append(@, id),
                                 !.layerNames = MapSet(@, layerName, id)],
                      id)

\* mutant: the name is registered before the Layer is constructed
LayerSystem_createLayer_namesFirst(s, name, options, ok) ==
    LET id == s.layerIdCounter
        layerName == IF name # "" THEN name ELSE DefaultName(id)
        s1 == [s EXCEPT !.layerIdCounter = @ + 1,
                        !.layerNames = MapSet(@, layerName, id)]
        layer == Layer_constructor(s.p, id, layerName, options, ok)
    IN  IF layer.framebuffer = NullFb THEN Threw(s1)
        ELSE Returned([s1 EXCEPT !.layers = MapSet(@, id, layer),
                                 !.layerOrder = IF id \in DOMAIN s.layers THEN @
                                                ELSE Append(@, id)],
                      id)

LayerSystem_createLayer(s, name, options, ok) ==
    LET id == s.layerIdCounter
        s1 == [s EXCEPT !.layerIdCounter = @ + 1]
        layerName == IF name # "" THEN name ELSE DefaultName(id)
        layer == Layer_constructor(s.p, id, layerName, options, ok)
    IN  IF layer.framebuffer = NullFb THEN Threw(s1)
        ELSE Returned([s1 EXCEPT !.layers = MapSet(@, id, layer),
                                 !.layerOrder = IF id \in DOMAIN s.layers THEN @
                                                ELSE Append(@, id),
                                 !.layerNames = MapSet(@, layerName, id)],
                      id)

\* mutant: the layer is removed without ending it when it is the active one
LayerSystem_removeLayer_keepsActive(s, ref) ==
    LET id == _getLayerById(s, ref)
    IN  IF id = null THEN s
        ELSE LET s1 == Resolved(s, id)
                 layer == s1.layers[id]
                 s2 == [s1 EXCEPT !.layerNames = MapDelete(@, layer.name)]
                 s3 == IF layer.framebuffer = NullFb THEN s2
                       ELSE Event(s2, "framebuffer.remove", id)
             IN  [s3 EXCEPT !.detached = MapSet(@, id, Layer_dispose(layer)),
                            !.layers = MapDelete(@, id),
                            !.layerOrder = SeqDelete(@, id)]

LayerSystem_removeLayer(s, ref) ==
    LET id == _getLayerById(s, ref)
    IN  IF id = null THEN s
        ELSE LET s1 == IF s.activeLayerId = id THEN LayerSystem_end(Resolved(s, id))
                       ELSE Resolved(s, id)
                 layer == s1.layers[id]
                 s2 == [s1 EXCEPT !.layerNames = MapDelete(@, layer.name)]
                 s3 == IF layer.framebuffer = NullFb THEN s2
                       ELSE Event(s2, "framebuffer.remove", id)
             IN  [s3 EXCEPT !.detached = MapSet(@, id, Layer_dispose(layer)),
                            !.layers = MapDelete(@, id),
                            !.layerOrder = SeqDelete(@, id)]

LayerSystem_getLayer(s, ref) == _getLayerById(s, ref)

\* mutant: the reference is resolved first and a missing layer returns at once
LayerSystem_begin_resolveFirst(s, ref) ==
    LET id == _getLayerById(s, ref)
        s1 == IF s.activeLayerId # null THEN LayerSystem_end(s) ELSE s
    IN  IF id = null THEN s
        ELSE [Event(Resolved([s1 EXCEPT !.layers[id] = Layer_begin(@)], id),
                    "Layer.begin", id)
                 EXCEPT !.activeLayerId = id]

LayerSystem_begin(s, ref) ==
    LET s1 == IF s.activeLayerId # null THEN LayerSystem_end(s) ELSE s
        id == _getLayerById(s1, ref)
    IN  IF id = null THEN s1
        ELSE [Event(Resolved([s1 EXCEPT !.layers[id] = Layer_begin(@)], id),
                    "Layer.begin", id)
                 EXCEPT !.activeLayerId = id]

\* mutant: an unstable sort, a layer goes before the layers of equal zIndex
SortInsert_unstable(ls, sorted, id) ==
    LET after == {i \in 1..Len(sorted) : ls[sorted[i]].zIndex < ls[id].zIndex}
        k == IF after = {} THEN 0 ELSE CHOOSE i \in after : \A j \in after : j <= i
    IN  SubSeq(sorted, 1, k) \o <<id>> \o SubSeq(sorted, k + 1, Len(sorted))

\* Array.prototype.sort((a, b) => a.zIndex - b.zIndex): stable, ascending
SortInsert(ls, sorted, id) ==
    LET after == {i \in 1..Len(sorted) : ls[sorted[i]].zIndex <= ls[id].zIndex}
        k == IF after = {} THEN 0 ELSE CHOOSE i \in after : \A j \in after : j <= i
    IN  SubSeq(sorted, 1, k) \o <<id>> \o SubSeq(sorted, k + 1, Len(sorted))

RECURSIVE SortByZIndex(_, _)
SortByZIndex(ls, seq) ==
    IF seq = <<>> THEN <<>>
    ELSE SortInsert(ls, SortByZIndex(ls, SubSeq(seq, 1, Len(seq) - 1)), seq[Len(seq)])

LayerSystem_getLayers(s) == SortByZIndex(s.layers, s.layerOrder)

\* show, hide, setOpacity, setBlendMode, setLayerIndex, moveLayer, setMask, clearMask:
\* resolve, then delegate to the Layer method named by op
Delegate(layer, op, arg) ==
    CASE op = "show" -> Layer_show(layer)
      [] op = "hide" -> Layer_hide(layer)
      [] op = "setOpacity" -> Layer_setOpacity(layer, arg)
      [] op = "setBlendMode" -> Layer_setBlendMode(layer, arg)
      [] op = "setLayerIndex" -> Layer_setZIndex(layer, arg)
      [] op = "moveLayer" -> Layer_setZIndex(layer, layer.zIndex + arg)
      [] op = "setMask" -> Layer_setMask(layer, arg)
      [] op = "clearMask" -> Layer_clearMask(layer)

\* mutant: a passthrough acts on the active layer when the reference resolves to none
LayerSystem_passthrough_fallsBack(s, op, ref, arg) ==
    LET found == _getLayerById(s, ref)
        id == IF found = null THEN s.activeLayerId ELSE found
    IN  IF id = null THEN Returned(s, null)
        ELSE Returned(Resolved([s EXCEPT !.layers[id] = Delegate(@, op, arg)], id), id)

LayerSystem_passthrough(s, op, ref, arg) ==
    LET id == _getLayerById(s, ref)
    IN  IF id = null THEN Returned(s, null)
        ELSE Returned(Resolved([s EXCEPT !.layers[id] = Delegate(@, op, arg)], id), id)

\* orderedLayers: Layer objects, in the system or detached from it
RECURSIVE LayerSystem_reorderLayers(_, _, _)
LayerSystem_reorderLayers(s, orderedLayers, index) ==
    IF index >= Len(orderedLayers) THEN s
    ELSE LET id == orderedLayers[index + 1]
             s1 == IF id \in DOMAIN s.layers
                   THEN [s EXCEPT !.layers[id] = Layer_setZIndex(@, index)]
                   ELSE [s EXCEPT !.detached[id] = Layer_setZIndex(@, index)]
         IN  LayerSystem_reorderLayers(s1, orderedLayers, index + 1)

LayerSystem_setAutoResize(s, enabled) == [s EXCEPT !.autoResize = enabled]

\* layer.resize as called on a Layer of the system (by _checkResize or by the caller)
ResizeLayer(s, id, width, height, density, ok) ==
    LET s1 == IF s.layers[id].framebuffer = NullFb THEN s
              ELSE Event(s, "framebuffer.remove", id)
        s2 == Event(s1, "framebuffer.create", id)
    IN  [s2 EXCEPT !.layers[id] = Layer_resize(@, s.p, width, height, density, ok)]

RECURSIVE ResizeSynced(_, _, _)
ResizeSynced(s, ids, fails) ==
    IF ids = <<>> THEN s
    ELSE LET id == Head(ids)
             s1 == IF ~s.layers[id].customSize
                   THEN ResizeLayer(s, id, s.p.width, s.p.height, s.p.density,
                                    id \notin fails)
                   ELSE s
         IN  ResizeSynced(s1, Tail(ids), fails)

\* mutant: a change of the pixel density alone goes unnoticed
LayerSystem__checkResize_sizeOnly(s, fails) ==
    LET sizeChanged == \/ s.p.width # s.lastCanvas.width
                       \/ s.p.height # s.lastCanvas.height
    IN  IF ~sizeChanged THEN s
        ELSE ResizeSynced([s EXCEPT !.lastCanvas = s.p], s.layerOrder, fails)

\* fails: the layers for which the host's createFramebuffer throws
LayerSystem__checkResize(s, fails) ==
    LET sizeChanged == \/ s.p.width # s.lastCanvas.width
                       \/ s.p.height # s.lastCanvas.height
        densityChanged == s.p.density # s.lastCanvas.density
    IN  IF ~sizeChanged /\ ~densityChanged THEN s
        ELSE ResizeSynced([s EXCEPT !.lastCanvas = s.p], s.layerOrder, fails)

\* ---------------------------------------------------------------- Compositor
\* shaderLoaded stands for shader and shaderLoaded: both are set and cleared together
Compositor_constructor ==
    [bufferA |-> NullFb, bufferB |-> NullFb, _bufferDensity |-> null,
     shaderLoaded |-> FALSE]

\* an image: the passes composited onto a cleared buffer, bottom first
Pass(layer) ==
    [layer |-> layer.id, opacity |-> layer.opacity,
     blendMode |-> getBlendModeIndex(layer.blendMode),
     hasMask |-> layer.mask # null, drawn |-> layer.framebuffer.drawn]

\* what a removed framebuffer shows when it is drawn anyway
GarbageImage == <<[layer |-> null, opacity |-> 0, blendMode |-> 0,
                   hasMask |-> FALSE, drawn |-> FALSE]>>

\* outcome: "ok", or the host's createFramebuffer throws for "failA" or "failB"
Compositor__ensureBuffers(s, outcome) ==
    LET c == s.compositor
        needsResize == \/ c.bufferA = NullFb
                       \/ c.bufferA.width # s.p.width
                       \/ c.bufferA.height # s.p.height
                       \/ c._bufferDensity # s.p.density
        created == Framebuffer(s.p.width, s.p.height, s.p.density)
    IN  IF ~needsResize THEN s
        ELSE IF c.bufferA # NullFb /\ c.bufferB = NullFb
        THEN Threw(Event([s EXCEPT !.compositor.bufferA.removed = TRUE],
                         "bufferA.remove", null))
        ELSE LET s1 == IF c.bufferA = NullFb THEN s
                       ELSE Event(Event([s EXCEPT !.compositor.bufferA.removed = TRUE,
                                                  !.compositor.bufferB.removed = TRUE],
                                        "bufferA.remove", null),
                                  "bufferB.remove", null)
                 s2 == Event(s1, "bufferA.create", null)
                 s3 == Event([s2 EXCEPT !.compositor.bufferA = created],
                             "bufferB.create", null)
             IN  CASE outcome = "failA" -> Threw(s2)
                   [] outcome = "failB" -> Threw(s3)
                   [] OTHER ->
                        [s3 EXCEPT !.compositor.bufferB = created,
                                   !.compositor._bufferDensity = s.p.density]

Gated(layer) == ~layer.visible \/ layer.opacity <= 0

Other(buffer) == IF buffer = "bufferA" THEN "bufferB" ELSE "bufferA"

\* nextBuffer.begin(); p.clear(); _renderLayer returns early; nextBuffer.end()
EmptyPass(s, next, id) == Event(Event(s, "write." \o next, id), "pass.empty", id)

\* nextBuffer.begin(); p.clear(); _renderLayer draws the quad with currentBuffer
\* as backgroundTexture; nextBuffer.end()
FullPass(s, current, next, id) ==
    Event(Event(Event([s EXCEPT !.compositor.shaderLoaded = TRUE],
                      "write." \o next, id),
                "read." \o current, id),
          "pass", id)

\* mutant: the buffers keep their roles after a pass
RenderStep_noSwap(r, id) ==
    LET layer == r.s.layers[id]
        next == Other(r.current)
    IN  IF r.s.log.threw \/ Gated(layer) THEN r
        ELSE IF r.s.compositor[next] = NullFb THEN [r EXCEPT !.s = Threw(@)]
        ELSE IF layer.framebuffer = NullFb
        THEN [r EXCEPT !.s = EmptyPass(@, next, id), !.image = <<>>]
        ELSE IF ~r.s.compositor.shaderLoaded /\ r.shaderFails > 0
        THEN [r EXCEPT !.s = EmptyPass(@, next, id),
                       !.image = <<>>, !.shaderFails = @ - 1]
        ELSE [r EXCEPT !.s = FullPass(@, r.current, next, id),
                       !.image = <<Pass(layer)>>]

\* mutant: a gated layer gets a cleared buffer and a swap
RenderStep_gatedSwaps(r, id) ==
    LET layer == r.s.layers[id]
        next == Other(r.current)
    IN  IF r.s.log.threw THEN r
        ELSE IF r.s.compositor[next] = NullFb THEN [r EXCEPT !.s = Threw(@)]
        ELSE IF Gated(layer) \/ layer.framebuffer = NullFb
        THEN [r EXCEPT !.s = EmptyPass(@, next, id), !.current = next,
                       !.image = <<>>]
        ELSE IF ~r.s.compositor.shaderLoaded /\ r.shaderFails > 0
        THEN [r EXCEPT !.s = EmptyPass(@, next, id), !.current = next,
                       !.image = <<>>, !.shaderFails = @ - 1]
        ELSE [r EXCEPT !.s = FullPass(@, r.current, next, id),
                       !.current = next,
                       !.image = Append(@, Pass(layer))]

\* one iteration of the loop of Compositor.render, _renderLayer included.
\* r: the state s, the current buffer and its image, the failures left for createShader
RenderStep(r, id) ==
    LET layer == r.s.layers[id]
        next == Other(r.current)
    IN  IF r.s.log.threw \/ Gated(layer) THEN r
        ELSE IF r.s.compositor[next] = NullFb THEN [r EXCEPT !.s = Threw(@)]
        ELSE IF layer.framebuffer = NullFb
        THEN [r EXCEPT !.s = EmptyPass(@, next, id), !.current = next,
                       !.image = <<>>]
        ELSE IF ~r.s.compositor.shaderLoaded /\ r.shaderFails > 0
        THEN [r EXCEPT !.s = EmptyPass(@, next, id), !.current = next,
                       !.image = <<>>, !.shaderFails = @ - 1]
        ELSE [r EXCEPT !.s = FullPass(@, r.current, next, id),
                       !.current = next,
                       !.image = Append(@, Pass(layer))]

RECURSIVE RenderLoop(_, _)
RenderLoop(r, sortedLayers) ==
    IF sortedLayers = <<>> THEN r
    ELSE RenderLoop(RenderStep(r, Head(sortedLayers)), Tail(sortedLayers))

\* a framebuffer of the compositor that was removed is begun by this render
UsesRemoved(s, sortedLayers) ==
    LET c == s.compositor
    IN  \/ c.bufferA # NullFb /\ c.bufferA.removed
        \/ /\ c.bufferB # NullFb /\ c.bufferB.removed
           /\ \E i \in 1..Len(sortedLayers) : ~Gated(s.layers[sortedLayers[i]])

\* layerList: ids of the layers to composite; shaderFails: how many calls of
\* createShader throw; ub: what drawing into a removed framebuffer does
Compositor_render(s, layerList, outcome, shaderFails, ub) ==
    LET s1 == Compositor__ensureBuffers(s, outcome)
        sortedLayers == SortByZIndex(s.layers, layerList)
        r == RenderLoop([s |-> s1, current |-> "bufferA", image |-> <<>>,
                         shaderFails |-> shaderFails], sortedLayers)
    IN  IF s1.log.threw THEN s1
        ELSE IF UsesRemoved(s1, sortedLayers)
        THEN IF ub = "throws" THEN Threw(s1)
             ELSE [r.s EXCEPT !.canvas = GarbageImage]
        ELSE IF r.s.log.threw THEN r.s
        ELSE [Event(r.s, "image." \o r.current, null) EXCEPT !.canvas = r.image]

\* render() up to the call of compositor.render
BeforeComposite(s, fails) ==
    LET s0 == [s EXCEPT !.lastRender =
                          [called |-> TRUE, host |-> s.p, autoResize |-> s.autoResize,
                           before |-> [called |-> s.lastRender.called,
                                       host |-> s.lastRender.host,
                                       autoResize |-> s.lastRender.autoResize]]]
    IN  IF s.autoResize THEN LayerSystem__checkResize(s0, fails) ELSE s0

\* mutant: the UI is synced before the layers are composited
LayerSystem_render_uiFirst(s, fails, outcome, shaderFails, ub) ==
    LET s1 == BeforeComposite(s, fails)
        s2 == IF s1.ui THEN Event(s1, "ui.syncState", null) ELSE s1
    IN  Compositor_render(s2, LayerSystem_getLayers(s2), outcome, shaderFails, ub)

LayerSystem_render(s, fails, outcome, shaderFails, ub) ==
    LET s1 == BeforeComposite(s, fails)
        s2 == Compositor_render(s1, LayerSystem_getLayers(s1), outcome, shaderFails, ub)
    IN  IF s2.log.threw THEN s2
        ELSE IF s2.ui THEN Event(s2, "ui.syncState", null) ELSE s2

\* ---------------------------------------------------------------- LayerUI, panel
Reverse(seq) == [i \in 1..Len(seq) |-> seq[Len(seq) + 1 - i]]

LayerUI__pruneThumbnailState(s, activeLayers) ==
    LET liveIds == Range(activeLayers)
    IN  [s EXCEPT !.panel.cache = [id \in DOMAIN @ \cap liveIds |-> @[id]],
                  !.panel.captureNeeded = @ \cap liveIds,
                  !.panel.dirty = SelectSeq(@, LAMBDA id : id \in liveIds)]

\* update(): the rows are rebuilt from getLayers(), top layer first
LayerUI_update(s) ==
    LET layerList == LayerSystem_getLayers(s)
        s1 == LayerUI__pruneThumbnailState(Event(s, "ui.update", null), layerList)
        s2 == [s1 EXCEPT !.panel.layerElements = Range(layerList)]
    IN  LayerUI__markThumbnailsDirty(s2, Reverse(layerList), TRUE)

\* capture: what _captureLayerImage and the bounds of the captured image give:
\* "drawn" an image with content, "empty" an image without, "failed" no image
LayerUI__updateLayerThumbnail(s, layerId, capture) ==
    LET s1 == [s EXCEPT !.panel.dirty = SelectSeq(@, LAMBDA id : id # layerId)]
        had == HasThumbnail(s1, layerId)
        needsCapture == layerId \in s1.panel.captureNeeded \/ ~had
        captured == /\ needsCapture
                    /\ capture # "failed"
                    /\ s1.layers[layerId].framebuffer # NullFb
        s2 == [s1 EXCEPT !.panel.cache = MapSet(@, layerId, had \/ captured),
                         !.panel.captureNeeded =
                             IF captured THEN @ \ {layerId} ELSE @]
    IN  IF layerId \notin DOMAIN s1.layers THEN s1
        ELSE IF layerId \notin s1.panel.layerElements THEN s1
        ELSE IF ~(had \/ captured) THEN s2
        ELSE IF captured /\ ~had /\ capture = "empty"
        THEN [s2 EXCEPT !.panel.cache[layerId] = FALSE]
        ELSE Event(s2, "ui.drawThumbnail", layerId)

\* _thumbnailBatchSize is 1: the first dirty id is taken
LayerUI__flushDirtyThumbnails(s, capture) ==
    IF s.panel.dirty = <<>> THEN s
    ELSE LayerUI__updateLayerThumbnail(s, Head(s.panel.dirty), capture)

\* flushCallback, run by the host
LayerUI_flushCallback(s, capture) ==
    LET s1 == [s EXCEPT !.panel.flushHandle = FALSE, !.panel.callbacks = @ - 1]
        s2 == LayerUI__flushDirtyThumbnails(s1, capture)
    IN  IF s2.panel.dirty # <<>> THEN LayerUI__scheduleThumbnailFlush(s2) ELSE s2

LayerUI__selectLayer(s, layerId) == [s EXCEPT !.panel.selectedLayerId = layerId]

LayerUI__deselectLayer(s) == [s EXCEPT !.panel.selectedLayerId = null]

\* the click handler of a row
LayerUI_rowClick(s, layerId, capture) ==
    LET s1 == LayerUI__selectLayer(s, layerId)
        s2 == [s1 EXCEPT !.panel.captureNeeded = @ \cup {layerId}]
    IN  LayerUI__updateLayerThumbnail(s2, layerId, capture)

IndexOf(seq, x) == IF x \in Range(seq)
                   THEN CHOOSE i \in 1..Len(seq) : seq[i] = x ELSE 0

\* mutant: the neighbour is looked for on the other side
LayerUI__moveSelectedLayer_inverted(s, direction) ==
    LET layerList == LayerSystem_getLayers(s)
        selected == s.panel.selectedLayerId
        currentIndex == IndexOf(layerList, selected)
        newIndex == currentIndex + direction
        swapped == [i \in 1..Len(layerList) |->
                       IF i = currentIndex THEN layerList[newIndex]
                       ELSE IF i = newIndex THEN layerList[currentIndex]
                       ELSE layerList[i]]
        s0 == Event(Event(s, "ui.markThumbnailsDirty", selected),
                    "ui.markThumbnailsDirty", layerList[newIndex])
        s1 == LayerUI__markThumbnailsDirty(s0, <<selected, layerList[newIndex]>>, FALSE)
        s2 == LayerSystem_reorderLayers(Event(s1, "reorderLayers", null), swapped, 0)
    IN  IF selected = null THEN s
        ELSE IF currentIndex = 0 THEN s
        ELSE IF newIndex < 1 \/ newIndex > Len(layerList) THEN s
        ELSE LayerUI__selectLayer(s2, selected)

\* direction -1 is up, a higher index of getLayers(); indices here start at 1
LayerUI__moveSelectedLayer(s, direction) ==
    LET layerList == LayerSystem_getLayers(s)
        selected == s.panel.selectedLayerId
        currentIndex == IndexOf(layerList, selected)
        newIndex == currentIndex - direction
        swapped == [i \in 1..Len(layerList) |->
                       IF i = currentIndex THEN layerList[newIndex]
                       ELSE IF i = newIndex THEN layerList[currentIndex]
                       ELSE layerList[i]]
        s0 == Event(Event(s, "ui.markThumbnailsDirty", selected),
                    "ui.markThumbnailsDirty", layerList[newIndex])
        s1 == LayerUI__markThumbnailsDirty(s0, <<selected, layerList[newIndex]>>, FALSE)
        s2 == LayerSystem_reorderLayers(Event(s1, "reorderLayers", null), swapped, 0)
    IN  IF selected = null THEN s
        ELSE IF currentIndex = 0 THEN s
        ELSE IF newIndex < 1 \/ newIndex > Len(layerList) THEN s
        ELSE LayerUI__selectLayer(s2, selected)

\* dispose() of the panel: a pending flush is cancelled, the sets are cleared
LayerUI_dispose(s) ==
    [Event(s, "ui.dispose", null)
        EXCEPT !.panel.callbacks = IF s.panel.flushHandle THEN @ - 1 ELSE @,
               !.panel.flushHandle = FALSE,
               !.panel.dirty = <<>>,
               !.panel.captureNeeded = {},
               !.panel.cache = [x \in {} |-> FALSE]]

\* new LayerUI(this, options); ui.update()
LayerSystem_createUI(s, options) ==
    LET s1 == IF s.ui THEN LayerUI_dispose(s) ELSE s
        s2 == [s1 EXCEPT !.ui = TRUE,
                         !.panel = [LayerUI_constructor(options)
                                       EXCEPT !.callbacks = s1.panel.callbacks]]
    IN  LayerUI_update(s2)

LayerSystem_updateUI(s) == IF s.ui THEN LayerUI_update(s) ELSE s

\* mutant: the framebuffers are removed and the references to them kept
Compositor_dispose_keepsBuffers(s) ==
    LET s1 == IF s.compositor.bufferA = NullFb THEN s
              ELSE Event(s, "bufferA.remove", null)
        s2 == IF s.compositor.bufferB = NullFb THEN s1
              ELSE Event(s1, "bufferB.remove", null)
    IN  [s2 EXCEPT !.compositor._bufferDensity = null,
                   !.compositor.shaderLoaded = FALSE]

Compositor_dispose(s) ==
    LET s1 == IF s.compositor.bufferA = NullFb THEN s
              ELSE Event(s, "bufferA.remove", null)
        s2 == IF s.compositor.bufferB = NullFb THEN s1
              ELSE Event(s1, "bufferB.remove", null)
    IN  [s2 EXCEPT !.compositor = Compositor_constructor]

\* for (const layer of this.layers.values()) layer.dispose()
RECURSIVE DisposeLayers(_, _)
DisposeLayers(s, ids) ==
    IF ids = <<>> THEN s
    ELSE LET id == Head(ids)
             s1 == IF s.layers[id].framebuffer = NullFb THEN s
                   ELSE Event(s, "framebuffer.remove", id)
         IN  DisposeLayers([s1 EXCEPT !.layers[id] = Layer_dispose(@)], Tail(ids))

\* mutant: the active layer is neither ended nor forgotten
LayerSystem_dispose_keepsActive(s) ==
    LET s0 == [s EXCEPT !.log.disposed = TRUE]
        s2 == IF s0.ui THEN [LayerUI_dispose(s0) EXCEPT !.ui = FALSE] ELSE s0
        s3 == DisposeLayers(s2, s2.layerOrder)
        s4 == [s3 EXCEPT !.detached = [id \in DOMAIN @ \cup DOMAIN s3.layers |->
                                         IF id \in DOMAIN s3.layers THEN s3.layers[id]
                                         ELSE @[id]],
                         !.layers = [x \in {} |-> null],
                         !.layerOrder = <<>>]
    IN  Compositor_dispose(s4)

\* mutant: the UI is disposed before the active layer is ended
LayerSystem_dispose_uiFirst(s) ==
    LET s0 == [s EXCEPT !.log.disposed = TRUE]
        s1 == IF s0.ui THEN [LayerUI_dispose(s0) EXCEPT !.ui = FALSE] ELSE s0
        s2 == IF s1.activeLayerId # null THEN LayerSystem_end(s1) ELSE s1
        s3 == DisposeLayers(s2, s2.layerOrder)
        s4 == [s3 EXCEPT !.detached = [id \in DOMAIN @ \cup DOMAIN s3.layers |->
                                         IF id \in DOMAIN s3.layers THEN s3.layers[id]
                                         ELSE @[id]],
                         !.layers = [x \in {} |-> null],
                         !.layerOrder = <<>>]
    IN  Compositor_dispose(s4)

\* the disposed Layer objects stay with the callers that hold them
LayerSystem_dispose(s) ==
    LET s0 == [s EXCEPT !.log.disposed = TRUE]
        s1 == IF s0.activeLayerId # null THEN LayerSystem_end(s0) ELSE s0
        s2 == IF s1.ui THEN [LayerUI_dispose(s1) EXCEPT !.ui = FALSE] ELSE s1
        s3 == DisposeLayers(s2, s2.layerOrder)
        s4 == [s3 EXCEPT !.detached = [id \in DOMAIN @ \cup DOMAIN s3.layers |->
                                         IF id \in DOMAIN s3.layers THEN s3.layers[id]
                                         ELSE @[id]],
                         !.layers = [x \in {} |-> null],
                         !.layerOrder = <<>>]
    IN  Compositor_dispose(s4)

\* ---------------------------------------------------------------- the addon
\* fn.createLayerSystem: the new LayerSystem is returned to the sketch; held is what
\* p._layerSystem was, and the function does not assign it
fn_createLayerSystem(held) == held

\* lifecycles.remove, run by the host when the sketch is removed
lifecycles_remove(s) ==
    IF s._layerSystem THEN [LayerSystem_dispose(s) EXCEPT !._layerSystem = FALSE]
    ELSE s

\* ---------------------------------------------------------------- the fragment shader
\* a colour: rgb as the term that computes it, a (and a mask's r) in hundredths
Cleared == [rgb |-> [fn |-> "clear"], a |-> 0]

BlendFunctions ==
    <<"blendNormal", "blendMultiply", "blendScreen", "blendAdd", "blendSubtract",
      "blendOverlay", "blendSoftLight", "blendHardLight", "blendColorDodge",
      "blendColorBurn", "blendDarken", "blendLighten", "blendDifference",
      "blendExclusion">>

applyBlendMode(mode, base, blend, opacity) ==
    [fn |-> IF mode \in 0..13 THEN BlendFunctions[mode + 1] ELSE "blendNormal",
     base |-> base, blend |-> blend, opacity |-> opacity]

\* main() of compositorFragSource for one fragment; finalOpacity in millionths
Shader_main(layerColor, bgColor, maskColor, hasMask, layerOpacity, blendMode) ==
    LET unmasked == layerColor.a * layerOpacity
        finalOpacity == IF hasMask THEN unmasked * maskColor.r ELSE unmasked * 100
    IN  IF finalOpacity <= 0 THEN bgColor
        ELSE [rgb |-> applyBlendMode(blendMode, bgColor.rgb, layerColor.rgb,
                                     finalOpacity),
              a |-> 100]

\* the fragment of an image: the passes applied, bottom first, to the cleared
\* buffer; textures[k]: the fragment of the k-th layer and of its mask
RECURSIVE Fragment(_, _, _)
Fragment(image, textures, k) ==
    IF k = 0 THEN Cleared
    ELSE Shader_main(textures[k].layer, Fragment(image, textures, k - 1),
                     textures[k].mask, image[k].hasMask, image[k].opacity,
                     image[k].blendMode)

\* ---------------------------------------------------------------- the state machine
EmptyMap == [x \in {} |-> null]

\* the host surface at construction of the LayerSystem
InitialHost == [width |-> 1, height |-> 1, density |-> 1]

Init ==
    /\ p = InitialHost
    /\ layers = EmptyMap
    /\ layerOrder = <<>>
    /\ layerNames = EmptyMap
    /\ layerIdCounter = 0
    /\ activeLayerId = null
    /\ autoResize = TRUE
    /\ lastCanvas = InitialHost
    /\ compositor = Compositor_constructor
    /\ ui = FALSE
    /\ panel = LayerUI_constructor(DEFAULT_UI_OPTIONS)
    /\ _layerSystem = fn_createLayerSystem(FALSE)
    /\ canvas = <<>>
    /\ detached = EmptyMap
    /\ lastRender = [called |-> FALSE, host |-> InitialHost, autoResize |-> TRUE,
                     before |-> [called |-> FALSE, host |-> InitialHost,
                                 autoResize |-> TRUE]]
    /\ lastOp = NewLog("constructor", OtherRef, <<>>)

\* the call returns with the state s
Do(s) ==
    /\ lastOp.step < MaxOps
    /\ \E t \in {s} :
         /\ p' = t.p
         /\ layers' = t.layers
         /\ layerOrder' = t.layerOrder
         /\ layerNames' = t.layerNames
         /\ layerIdCounter' = t.layerIdCounter
         /\ activeLayerId' = t.activeLayerId
         /\ autoResize' = t.autoResize
         /\ lastCanvas' = t.lastCanvas
         /\ compositor' = t.compositor
         /\ ui' = t.ui
         /\ panel' = t.panel
         /\ _layerSystem' = t._layerSystem
         /\ canvas' = t.canvas
         /\ detached' = t.detached
         /\ lastRender' = t.lastRender
         /\ lastOp' = t.log

\* inputs
NameInputs == {"", "a", "Layer 1"}
RefInputs == {IdRef(n) : n \in 0..MaxLayers} \cup {NameRef(n) : n \in {"a", "Layer 1"}}
NoOptions == DEFAULT_LAYER_OPTIONS
HostSizes == 1..2
Surfaces(widths, heights, densities) ==
    [width : widths, height : heights, density : densities]

CreateLayer(names, optionSet, oks) ==
    \E name \in names, options \in optionSet, ok \in oks :
        /\ layerIdCounter < MaxLayers
        /\ Do(LayerSystem_createLayer(Called(State, "createLayer", NameRef(name),
                                             <<options, ok>>),
                                      name, options, ok))

RemoveLayer(refs) ==
    \E ref \in refs : Do(LayerSystem_removeLayer(Called(State, "removeLayer", ref, <<>>), ref))

Begin(refs) ==
    \E ref \in refs : Do(LayerSystem_begin(Called(State, "begin", ref, <<>>), ref))

End == Do(LayerSystem_end(Called(State, "end", OtherRef, <<>>)))

CreateUI == ~ui /\ Do(LayerSystem_createUI(Called(State, "createUI", OtherRef, <<>>),
                                           DEFAULT_UI_OPTIONS))

\* createUI(options), also when a panel is attached already
CreateUIWith(optionSet) ==
    \E options \in optionSet :
        Do(LayerSystem_createUI(Called(State, "createUI", OtherRef, <<options>>),
                                options))

UpdateUI == Do(LayerSystem_updateUI(Called(State, "updateUI", OtherRef, <<>>)))

\* what a capture of a layer's buffer can give
Captures == {"drawn", "empty", "failed"}

\* the user clicks the row of a layer; a row stays until the next update()
UIClick(captures) ==
    \E layerId \in panel.layerElements, capture \in captures :
        /\ ui
        /\ Do(LayerUI_rowClick(Called(State, "ui.click", IdRef(layerId), <<capture>>),
                               layerId, capture))

\* the user clicks outside the panel
UIDeselect ==
    /\ ui
    /\ panel.selectedLayerId # null
    /\ Do(LayerUI__deselectLayer(Called(State, "ui.deselect", OtherRef, <<>>)))

\* the arrow buttons and keys: _moveSelectedLayer(-1) and _moveSelectedLayer(1)
UIMove(directions) ==
    \E direction \in directions :
        /\ ui
        /\ Do(LayerUI__moveSelectedLayer(Called(State, "ui.move", OtherRef,
                                                <<direction>>),
                                         direction))

\* a step of the host, not a call of the sketch: it is not counted in step
HostRuns(s) ==
    /\ p' = s.p
    /\ layers' = s.layers
    /\ layerOrder' = s.layerOrder
    /\ layerNames' = s.layerNames
    /\ layerIdCounter' = s.layerIdCounter
    /\ activeLayerId' = s.activeLayerId
    /\ autoResize' = s.autoResize
    /\ lastCanvas' = s.lastCanvas
    /\ compositor' = s.compositor
    /\ ui' = s.ui
    /\ panel' = s.panel
    /\ _layerSystem' = s._layerSystem
    /\ canvas' = s.canvas
    /\ detached' = s.detached
    /\ lastRender' = s.lastRender
    /\ lastOp' = [s.log EXCEPT !.step = lastOp.step]

\* the host runs a flush callback it was handed (idle callback, animation frame
\* or timeout)
Flush(captures) ==
    /\ panel.callbacks > 0
    /\ \E capture \in captures :
         \E s \in {LayerUI_flushCallback(Called(State, "ui.flush", OtherRef,
                                                <<capture>>),
                                         capture)} :
             HostRuns(s)

\* the host removes the sketch and runs the addon's remove hook
Remove == Do(lifecycles_remove(Called(State, "lifecycles.remove", OtherRef, <<>>)))

SetAutoResize ==
    \E enabled \in BOOLEAN :
        /\ enabled # autoResize
        /\ Do(LayerSystem_setAutoResize(Called(State, "setAutoResize", OtherRef,
                                               <<enabled>>),
                                        enabled))

\* the host resizes its surface or changes its pixel density
HostResize(surfaces) ==
    \E surface \in surfaces :
        /\ surface # p
        /\ Do([Called(State, "host.resize", OtherRef, <<surface>>)
                  EXCEPT !.p = surface])

\* the layers _checkResize would resize now
ResizeTargets ==
    IF autoResize /\ p # lastCanvas
    THEN {id \in DOMAIN layers : ~layers[id].customSize}
    ELSE {}

\* the calls of createShader a render can make before the shader is loaded
ShaderAttempts ==
    IF compositor.shaderLoaded THEN 0
    ELSE Cardinality({id \in DOMAIN layers :
                        ~Gated(layers[id]) /\ layers[id].framebuffer # NullFb})

\* the compositor calls the host's createFramebuffer in the next render
BufferAttempt ==
    IF compositor.bufferA = NullFb THEN TRUE
    ELSE \/ compositor.bufferA.width # p.width
         \/ compositor.bufferA.height # p.height
         \/ compositor._bufferDensity # p.density

\* the compositor holds a framebuffer that was removed
HoldsRemoved ==
    \E buffer \in {compositor.bufferA, compositor.bufferB} :
        IF buffer = NullFb THEN FALSE ELSE buffer.removed

\* render() runs once per frame, outside every begin/end pair: what the host does
\* with a render between begin() and end() is not defined. A failure of a factory
\* is an input of the renders that call the factory
Render(failSets, outcomes, shaderFailures, ubs) ==
    \E fails \in failSets, outcome \in outcomes, shaderFails \in shaderFailures,
       ub \in ubs :
        /\ activeLayerId = null
        /\ fails \subseteq ResizeTargets
        /\ shaderFails <= ShaderAttempts
        /\ outcome # "ok" => BufferAttempt
        /\ ub # "throws" => HoldsRemoved
        /\ Do(LayerSystem_render(Called(State, "render", OtherRef,
                                        <<fails, outcome, shaderFails, ub>>),
                                 fails, outcome, shaderFails, ub))

\* the zIndex a call leaves stays within the range the model follows
ZBounded(s) == \A id \in DOMAIN s.layers : s.layers[id].zIndex \in (0 - MaxZ)..MaxZ

Passthrough(ops, refs, args) ==
    \E op \in ops, ref \in refs, arg \in args :
        LET s == LayerSystem_passthrough(Called(State, op, ref, <<arg>>), op, ref, arg)
        IN  ZBounded(s) /\ Do(s)

\* injective sequences of Layer objects, in the system or removed from it
RECURSIVE Arrangements(_)
Arrangements(ids) ==
    {<<>>} \cup UNION {{<<id>> \o rest : rest \in Arrangements(ids \ {id})} : id \in ids}

\* an arrangement with one of its Layer objects given once more, at the end
Repeating(ids) ==
    UNION {{a \o <<a[i]>> : i \in 1..Len(a)} :
             a \in {b \in Arrangements(ids) : Len(b) < MaxLayers}}

\* the Layer objects a caller can hold: in the system or removed from it
Held == DOMAIN layers \cup DOMAIN detached

ReorderLayers(sequences) ==
    \E orderedLayers \in sequences :
        Do(LayerSystem_reorderLayers(Called(State, "reorderLayers", OtherRef,
                                            <<orderedLayers>>),
                                     orderedLayers, 0))

\* layer.resize(width, height, density) called on a Layer the caller holds; the
\* log keeps, after the arguments, the customSize the layer had
LayerResize(widths, heights, densities, oks) ==
    \E id \in DOMAIN layers, w \in widths, h \in heights, d \in densities, ok \in oks :
        /\ id # activeLayerId
        /\ Do(Resolved(ResizeLayer(Called(State, "layer.resize", IdRef(id),
                                           <<w, h, d, ok, layers[id].customSize>>),
                                    id, w, h, d, ok),
                       id))

Dispose == Do(LayerSystem_dispose(Called(State, "dispose", OtherRef, <<>>)))

\* the core life cycle: layers are created, drawn to, removed and composited while
\* the host resizes and its framebuffer factory may fail for a layer
\* an id that was not handed out yet is as missing as the id MaxLayers, which
\* never is handed out: one missing id is tried
TriedRefs == {ref \in RefInputs :
                 ref.kind = "number" => (ref.id < layerIdCounter \/ ref.id = MaxLayers)}

Next ==
    \/ CreateLayer(NameInputs, {NoOptions}, BOOLEAN)
    \/ RemoveLayer(TriedRefs)
    \/ Begin(TriedRefs)
    \/ End
    \/ CreateUI
    \/ HostResize(Surfaces(HostSizes, {1}, {1}))
    \/ Render(SUBSET (0..(MaxLayers - 1)), {"ok"}, {0}, {"throws"})

Spec == Init /\ [][Next]_vars

\* z-order: layers are created with and without a zIndex, removed and reordered
ZInputs == 0..MaxZ
ZOptions ==
    {NoOptions} \cup {[NoOptions EXCEPT !.given = {"zIndex"}, !.zIndex = z] : z \in ZInputs}
IdRefs == {IdRef(n) : n \in 0..MaxLayers}

NextOrder ==
    \/ CreateLayer({""}, ZOptions, {TRUE})
    \/ RemoveLayer(IdRefs)
    \/ Passthrough({"setLayerIndex"}, IdRefs, ZInputs)
    \/ Passthrough({"moveLayer"}, IdRefs, {0 - 1, 1})
    \/ ReorderLayers(Arrangements(Held))

SpecOrder == Init /\ [][NextOrder]_vars

\* compositing: layers are shown, hidden and faded; the host resizes, and its
\* framebuffer and shader factories may fail during a render
OpacityInputs == {0, 100}

\* the ids createLayer gives out
LayerRefs == {IdRef(n) : n \in 0..(MaxLayers - 1)}

NextRender ==
    \/ CreateLayer({""}, {NoOptions}, {TRUE})
    \/ Passthrough({"show", "hide"}, LayerRefs, {null})
    \/ Passthrough({"setOpacity"}, LayerRefs, OpacityInputs)
    \/ HostResize(Surfaces(HostSizes, {1}, {1}))
    \/ Render(SUBSET (0..(MaxLayers - 1)), {"ok", "failA", "failB"}, 0..1,
              {"throws", "garbage"})

SpecRender == Init /\ [][NextRender]_vars

\* reordering: the caller passes sequences of the Layer objects it holds, some of
\* them removed, some given twice
NextReorder ==
    \/ CreateLayer({""}, {NoOptions}, {TRUE})
    \/ RemoveLayer(LayerRefs)
    \/ ReorderLayers(Arrangements(Held) \cup Repeating(Held))

SpecReorder == Init /\ [][NextReorder]_vars

\* opacity: layers are created with an opacity and faded, with values below, in
\* and above the range
OpacityValues == {0 - 50, 30, 150}
OpacityOptions ==
    {NoOptions} \cup
    {[NoOptions EXCEPT !.given = {"opacity"}, !.opacity = v] : v \in OpacityValues}

NextOpacity ==
    \/ CreateLayer({""}, OpacityOptions, {TRUE})
    \/ Passthrough({"setOpacity"}, LayerRefs, OpacityValues)

SpecOpacity == Init /\ [][NextOpacity]_vars

\* blend modes: layers are created with a blend mode and given another, with
\* strings that are BlendModes values and strings that are not
InvalidModes == {"normal", "BOGUS", ""}
BlendOptions ==
    {NoOptions} \cup
    {[NoOptions EXCEPT !.given = {"blendMode"}, !.blendMode = mode] :
        mode \in {"SCREEN", "BOGUS"}}

NextBlend ==
    \/ CreateLayer({""}, BlendOptions, {TRUE})
    \/ Passthrough({"setBlendMode"}, {IdRef(0)}, BlendModeValues \cup InvalidModes)
    \/ Passthrough({"setBlendMode"}, LayerRefs, {"EXCLUSION", "BOGUS"})

SpecBlend == Init /\ [][NextBlend]_vars

\* resizing: layers are created synced to the host or with a size of their own and
\* resized by the caller, while the host changes its size and pixel density
SizeOptions ==
    {NoOptions,
     [NoOptions EXCEPT !.given = {"width"}, !.width = 1],
     [NoOptions EXCEPT !.given = {"density"}, !.density = 2]}

\* the initial surface, and the surfaces one of whose measures differs from it
ResizeSurfaces ==
    Surfaces(HostSizes, {1}, {1}) \cup Surfaces({1}, HostSizes, {1})
        \cup Surfaces({1}, {1}, HostSizes)

NextResize ==
    \/ CreateLayer({""}, SizeOptions, {TRUE})
    \/ HostResize(ResizeSurfaces)
    \/ SetAutoResize
    \/ LayerResize(HostSizes, {1}, {1}, BOOLEAN)
    \/ Render(SUBSET (0..(MaxLayers - 1)), {"ok"}, {0}, {"throws"})

SpecResize == Init /\ [][NextResize]_vars

\* creation: layers are created with and without measures and a zIndex of their
\* own while the host changes its surface
CreateOptions ==
    {NoOptions,
     [NoOptions EXCEPT !.given = {"width"}, !.width = 1],
     [NoOptions EXCEPT !.given = {"height"}, !.height = 2],
     [NoOptions EXCEPT !.given = {"density"}, !.density = 1],
     [NoOptions EXCEPT !.given = {"zIndex"}, !.zIndex = MaxZ],
     [NoOptions EXCEPT !.given = {"width", "zIndex"}, !.width = 2, !.zIndex = 0]}

NextCreate ==
    \/ CreateLayer({""}, CreateOptions, {TRUE})
    \/ HostResize(ResizeSurfaces)

SpecCreate == Init /\ [][NextCreate]_vars

\* frames: layers are created above and below each other and composited, with and
\* without a UI and auto-resize, while the host resizes and its factory may fail
FrameOptions ==
    {NoOptions,
     [NoOptions EXCEPT !.given = {"zIndex"}, !.zIndex = MaxZ],
     [NoOptions EXCEPT !.given = {"width"}, !.width = 1]}

NextFrame ==
    \/ CreateLayer({""}, FrameOptions, {TRUE})
    \/ CreateUI
    \/ SetAutoResize
    \/ HostResize(Surfaces(HostSizes, {1}, {1}))
    \/ Passthrough({"hide"}, {IdRef(0)}, {null})
    \/ Render(SUBSET (0..(MaxLayers - 1)), {"ok", "failA"}, {0}, {"throws"})

SpecFrame == Init /\ [][NextFrame]_vars

\* teardown: the system is disposed at any point of its life and used afterwards
NextDispose ==
    \/ CreateLayer({"", "a"}, {NoOptions}, {TRUE})
    \/ Begin(IdRefs \cup {NameRef("a")})
    \/ CreateUI
    \/ HostResize(Surfaces(HostSizes, {1}, {1}))
    \/ Render(SUBSET (0..(MaxLayers - 1)), {"ok", "failA", "failB"}, {0}, {"throws"})
    \/ Dispose

SpecDispose == Init /\ [][NextDispose]_vars

\* a mask source is known by a number
MaskInputs == {1}

\* shading: layers are drawn to, faded and masked, and composited
NextShade ==
    \/ CreateLayer({""}, {NoOptions}, {TRUE})
    \/ Begin(IdRefs)
    \/ End
    \/ Passthrough({"setOpacity"}, IdRefs, {50})
    \/ Passthrough({"setMask"}, IdRefs, MaskInputs)
    \/ Render({{}}, {"ok"}, {0}, {"throws"})

SpecShade == Init /\ [][NextShade]_vars

\* references: layers are named by a string that reads as a number or by default,
\* and every operation is called with ids, names and values that are neither
AnyRefs == IdRefs \cup {NameRef("1"), NameRef("zz"), OtherRef}
\* references no layer ever has, and with them the first layer
NeverRefs == {IdRef(MaxLayers), NameRef("zz"), OtherRef}
FewRefs == NeverRefs \cup {IdRef(0)}

NextRefs ==
    \/ CreateLayer({"", "1"}, {NoOptions}, {TRUE})
    \/ Begin(AnyRefs)
    \/ RemoveLayer(AnyRefs)
    \/ Passthrough({"hide"}, FewRefs \cup {NameRef("1")}, {null})
    \/ Passthrough({"show", "clearMask"}, NeverRefs, {null})
    \/ Passthrough({"setOpacity"}, FewRefs, {50})
    \/ Passthrough({"setBlendMode"}, NeverRefs, {"MULTIPLY"})
    \/ Passthrough({"setLayerIndex", "moveLayer"}, NeverRefs, {1})
    \/ Passthrough({"setMask"}, FewRefs, MaskInputs)

SpecRefs == Init /\ [][NextRefs]_vars

\* the panel: rows, selection, moves and thumbnail flushes
UIOptions == {[thumbnailAutoUpdate |-> b] : b \in BOOLEAN}

NextUI ==
    \/ CreateLayer({""}, {NoOptions}, {TRUE})
    \/ RemoveLayer({IdRef(0)})
    \/ Begin({IdRef(1)})
    \/ End
    \/ CreateUIWith(UIOptions)
    \/ UpdateUI
    \/ UIClick({"drawn", "empty"})
    \/ UIDeselect
    \/ UIMove({-1, 1})
    \/ Flush({"drawn", "failed"})
    \/ Dispose

SpecUI == Init /\ [][NextUI]_vars

\* moves and flushes, the host running every flush callback it was handed
NextMove ==
    \/ CreateLayer({""}, {NoOptions}, {TRUE})
    \/ CreateUIWith(UIOptions)
    \/ UIClick({"drawn"})
    \/ UIMove({-1, 1})
    \/ Flush({"drawn", "failed"})

FairMove == Init /\ [][NextMove]_vars /\ WF_vars(Flush({"drawn", "failed"}))

\* the whole life of the layers: created (also under one name), drawn, removed,
\* composited and disposed, in any order
NextLife ==
    \/ CreateLayer({"", "a"}, {NoOptions}, BOOLEAN)
    \/ Begin(IdRefs \cup {NameRef("a")})
    \/ End
    \/ RemoveLayer(IdRefs \cup {NameRef("a")})
    \/ Render({{}}, {"ok"}, {0}, {"throws"})
    \/ Dispose

SpecLife == Init /\ [][NextLife]_vars

\* the sketch draws and is removed by the host
NextSketch ==
    \/ CreateLayer({""}, {NoOptions}, {TRUE})
    \/ Begin(IdRefs)
    \/ End
    \/ Render({{}}, {"ok"}, {0}, {"throws"})
    \/ Remove

SpecSketch == Init /\ [][NextSketch]_vars

\* ---------------------------------------------------------------- claims
\* position of the event <<what, id>> in the events of a call, 0 if absent
EventIn(events, what, id) ==
    LET at == {i \in 1..Len(events) : events[i] = <<what, id>>}
    IN  IF at = {} THEN 0 ELSE CHOOSE i \in at : \A j \in at : i <= j

EventAt(what, id) == EventIn(lastOp.events, what, id)

EventCount(events, what) == Cardinality({i \in 1..Len(events) : events[i][1] = what})

\* the part of the state a caller of the LayerSystem can observe
System == <<layers, layerOrder, layerNames, layerIdCounter, activeLayerId, autoResize,
            lastCanvas, compositor, ui, canvas, detached>>

\* the layers whose framebuffer is the render target: between begin() and end()
Begun ==
    {id \in DOMAIN layers : layers[id].framebuffer # NullFb /\ layers[id].framebuffer.begun}

\* begin(B) was called while another existing layer A was active
SwitchedLayer ==
    /\ lastOp.op = "begin"
    /\ lastOp.active # null
    /\ lastOp.target # null
    /\ lastOp.target # lastOp.active

\* C1: at most one layer is active in every reachable state, and begin(B) while A
\* is active ends A (A.end() runs, A.hasBeenDrawnTo becomes true) before B.begin()
\* runs and leaves activeLayerId = B.
C1_OneActiveLayer ==
    /\ Cardinality(Begun) <= 1
    /\ \A id \in Begun : id = activeLayerId
    /\ SwitchedLayer =>
         /\ activeLayerId = lastOp.target
         /\ EventAt("Layer.end", lastOp.active) > 0
         /\ EventAt("Layer.end", lastOp.active) < EventAt("Layer.begin", lastOp.target)
         /\ layers[lastOp.active].hasBeenDrawnTo

\* begin(ref) is called with a reference that resolves to no layer
BeginsMissing == lastOp'.op = "begin" /\ _getLayerById(State, lastOp'.ref) = null

\* C2 as claimed: begin(ref) with a reference that resolves to no layer leaves the
\* whole system state unchanged, also while a layer is active.
C2_BeginMissingNoOp ==
    [][BeginsMissing => UNCHANGED <<activeLayerId, layers, layerOrder, layerNames>>]_vars

\* C2 as amended: begin(ref) with a reference that resolves to no layer changes
\* nothing but what end() changes: a layer that was active is ended (hasBeenDrawnTo
\* set if it has a buffer) and no layer is active afterwards; with no layer active
\* the state is unchanged.
C2_BeginMissingEndsActive ==
    [][BeginsMissing =>
         /\ activeLayerId' = null
         /\ UNCHANGED <<layerOrder, layerNames, layerIdCounter, detached>>
         /\ DOMAIN layers' = DOMAIN layers
         /\ \A id \in DOMAIN layers :
              IF id = activeLayerId /\ layers[id].framebuffer # NullFb
              THEN layers'[id] = [layers[id] EXCEPT !.hasBeenDrawnTo = TRUE,
                                                    !.framebuffer.begun = FALSE,
                                                    !.framebuffer.drawn = TRUE]
              ELSE layers'[id] = layers[id]
         /\ EventCount(lastOp'.events, "Layer.begin") = 0]_vars

\* begin() of a missing layer was called while a layer was active
C2_Witness ==
    /\ lastOp.op = "begin"
    /\ lastOp.target = null
    /\ lastOp.active # null
    /\ activeLayerId = null
    /\ layers[lastOp.active].hasBeenDrawnTo

\* C3: end() with an active layer L ends L (L.hasBeenDrawnTo becomes true), then
\* notifies the attached UI exactly once (not at all without a UI), then clears the
\* active state; no other layer changes.
C3_EndEndsActive ==
    [][(lastOp'.op = "end" /\ activeLayerId # null) =>
         /\ layers'[activeLayerId].hasBeenDrawnTo
         /\ EventIn(lastOp'.events, "Layer.end", activeLayerId) = 1
         /\ EventCount(lastOp'.events, "ui.scheduleThumbnailUpdate") = IF ui THEN 1 ELSE 0
         /\ ui => EventIn(lastOp'.events, "ui.scheduleThumbnailUpdate", activeLayerId) = 2
         /\ activeLayerId' = null
         /\ DOMAIN layers' = DOMAIN layers
         /\ \A id \in DOMAIN layers \ {activeLayerId} : layers'[id] = layers[id]]_vars

\* C4: end() with no active layer changes nothing and notifies nobody.
C4_EndIdleNoOp ==
    [][(lastOp'.op = "end" /\ activeLayerId = null) =>
         /\ UNCHANGED System
         /\ lastOp'.events = <<>>]_vars

\* end() was called with no active layer, a UI attached and a layer in the system
C4_Witness ==
    /\ lastOp.op = "end"
    /\ lastOp.active = null
    /\ ui
    /\ DOMAIN layers # {}

\* the layer removeLayer(ref) is about to remove, null if the reference is unknown
Removing == IF lastOp'.op = "removeLayer" THEN _getLayerById(State, lastOp'.ref) ELSE null

\* C5: removeLayer(ref) of an existing layer L ends L first if it is active (no
\* layer is active afterwards), releases L's buffer and sets it to null, and takes
\* L out of the id map: getLayer(L.id) is null and getLayers() has no L; every
\* other layer is unchanged.
C5_RemoveLayer ==
    [][Removing # null =>
         /\ IF activeLayerId = Removing
            THEN activeLayerId' = null /\ EventIn(lastOp'.events, "Layer.end", Removing) = 1
            ELSE activeLayerId' = activeLayerId
         /\ layers[Removing].framebuffer # NullFb =>
              EventIn(lastOp'.events, "framebuffer.remove", Removing)
                  > EventIn(lastOp'.events, "Layer.end", Removing)
         /\ detached'[Removing].framebuffer = NullFb
         /\ LayerSystem_getLayer(State', IdRef(Removing)) = null
         /\ \A i \in 1..Len(LayerSystem_getLayers(State')) :
              LayerSystem_getLayers(State')[i] # Removing
         /\ DOMAIN layers' = DOMAIN layers \ {Removing}
         /\ \A id \in DOMAIN layers' : layers'[id] = layers[id]]_vars

\* the active layer was removed while other layers stay in the system
C5_Witness ==
    /\ lastOp.op = "removeLayer"
    /\ lastOp.target # null
    /\ lastOp.active = lastOp.target
    /\ lastOp.target \in DOMAIN detached
    /\ DOMAIN layers # {}

\* the layer createLayer has just returned, null if none
Created == IF lastOp'.op = "createLayer" THEN lastOp'.ret ELSE null

\* C6: after createLayer with a name another layer already has, the name resolves
\* to the layer just created, and every earlier layer is still in the system,
\* unchanged and reachable by its id.
C6_NameCollision ==
    [][Created # null =>
         /\ LayerSystem_getLayer(State', NameRef(layers'[Created].name)) = Created
         /\ \A id \in DOMAIN layers :
              /\ id \in DOMAIN layers'
              /\ layers'[id] = layers[id]
              /\ LayerSystem_getLayer(State', IdRef(id)) = id]_vars

\* a layer was created under the name of an earlier layer that is still there
C6_Witness ==
    /\ lastOp.op = "createLayer"
    /\ lastOp.ret # null
    /\ \E id \in DOMAIN layers \ {lastOp.ret} : layers[id].name = layers[lastOp.ret].name

\* C7: createLayer returns an id greater than every id returned before, whether
\* the layer that got it is still in the system or was removed.
C7_MonotonicIds ==
    [][Created # null =>
         /\ layers'[Created].id = Created
         /\ \A id \in DOMAIN layers \cup DOMAIN detached : Created > id]_vars

\* a layer was created after a layer with an earlier id was removed
C7_Witness ==
    /\ lastOp.op = "createLayer"
    /\ lastOp.ret # null
    /\ \E id \in DOMAIN detached : id < lastOp.ret

\* position of a layer in the iteration order of the layers Map
InsertionIndex(id) == CHOOSE i \in 1..Len(layerOrder) : layerOrder[i] = id

\* C8: getLayers() returns exactly the layers in the system, each once, ascending
\* by zIndex, layers of equal zIndex in the insertion order of the id map.
C8_GetLayersOrder ==
    LET got == LayerSystem_getLayers(State)
    IN  /\ Len(got) = Cardinality(DOMAIN layers)
        /\ {got[i] : i \in 1..Len(got)} = DOMAIN layers
        /\ \A i, j \in 1..Len(got) :
             i < j =>
               /\ layers[got[i]].zIndex <= layers[got[j]].zIndex
               /\ layers[got[i]].zIndex = layers[got[j]].zIndex =>
                    InsertionIndex(got[i]) < InsertionIndex(got[j])

\* three layers after a moveLayer: two share a zIndex, and the layer inserted last
\* comes first in getLayers()
C8_Witness ==
    /\ Cardinality(DOMAIN layers) = 3
    /\ lastOp.op = "moveLayer"
    /\ lastOp.target # null
    /\ \E a, b \in DOMAIN layers : a # b /\ layers[a].zIndex = layers[b].zIndex
    /\ LayerSystem_getLayers(State)[1] = layerOrder[3]

Without(seq, id) ==
    LET Keep(x) == x # id
    IN  SelectSeq(seq, Keep)

\* C9: Compositor.render makes no pass and no swap for a layer with visible=false
\* or opacity<=0: the passes, the buffer blitted, the image on the main surface and
\* the compositor's state are those of rendering the list without that layer.
C9_GatedLayerSkipped ==
    [][lastOp'.op = "render" =>
         \A s1 \in {BeforeComposite(Called(State, "render", OtherRef, lastOp'.args),
                                     lastOp'.args[1])} :
           \A id \in {x \in DOMAIN s1.layers : Gated(s1.layers[x])} :
             \A without \in {Compositor_render(s1,
                                                Without(LayerSystem_getLayers(s1), id),
                                                lastOp'.args[2], lastOp'.args[3],
                                                lastOp'.args[4])} :
               /\ canvas' = without.canvas
               /\ compositor' = without.compositor
               /\ lastOp'.events = without.log.events
               /\ lastOp'.threw = without.log.threw
               /\ EventIn(lastOp'.events, "pass", id) = 0
               /\ EventIn(lastOp'.events, "pass.empty", id) = 0]_vars

\* a render composited the layers below and above a gated layer
C9_Witness ==
    /\ lastOp.op = "render"
    /\ ~lastOp.threw
    /\ Len(canvas) = 2
    /\ LET got == LayerSystem_getLayers(State)
       IN  /\ Len(got) = 3
           /\ Gated(layers[got[2]])
           /\ canvas[1].layer = got[1]
           /\ canvas[2].layer = got[3]

\* C10: when render() runs with auto-resize enabled, as it was at the render()
\* before, and the host's width, height or pixel density differs from what it was
\* at that render, every layer with customSize=false leaves the call with the
\* host's width, height and density (and a buffer, if the factory made one, of
\* that size), and every layer with customSize=true keeps its width, height,
\* density and buffer.
C10_ResizePropagation ==
    [][(/\ lastOp'.op = "render"
        /\ autoResize
        /\ lastRender.called
        /\ lastRender.autoResize
        /\ p # lastRender.host) =>
         /\ DOMAIN layers' = DOMAIN layers
         /\ \A id \in DOMAIN layers :
              IF layers[id].customSize
              THEN /\ layers'[id].width = layers[id].width
                   /\ layers'[id].height = layers[id].height
                   /\ layers'[id].density = layers[id].density
                   /\ layers'[id].framebuffer = layers[id].framebuffer
                   /\ layers'[id].customSize
              ELSE /\ layers'[id].width = p.width
                   /\ layers'[id].height = p.height
                   /\ layers'[id].density = p.density
                   /\ layers'[id].framebuffer \in
                        {NullFb, Framebuffer(p.width, p.height, p.density)}
                   /\ ~layers'[id].customSize]_vars

\* the second of two renders with auto-resize on, the host having changed its
\* height in between: a synced layer got a new buffer of the host's size,
\* next to a layer with a size of its own that differs from the host's
C10_Witness ==
    /\ lastOp.op = "render"
    /\ lastRender.autoResize
    /\ lastRender.before.called
    /\ lastRender.before.autoResize
    /\ lastRender.before.host.height # p.height
    /\ \E a, b \in DOMAIN layers :
         /\ layers[a].customSize
         /\ layers[a].framebuffer # NullFb
         /\ layers[a].height # p.height
         /\ ~layers[b].customSize
         /\ EventAt("framebuffer.remove", b) # 0
         /\ layers[b].framebuffer = Framebuffer(p.width, p.height, p.density)

\* the state dispose() is to leave: no layer, nothing active, no UI, a compositor
\* without buffers and program
Terminal ==
    /\ layers = EmptyMap
    /\ layerOrder = <<>>
    /\ activeLayerId = null
    /\ ~ui
    /\ compositor = Compositor_constructor

\* C11: dispose() never throws and leaves the terminal state; a dispose() right
\* after a dispose() throws nothing, removes no framebuffer and changes nothing.
C11_DisposeIdempotent ==
    [][lastOp'.op = "dispose" =>
         /\ ~lastOp'.threw
         /\ Terminal'
         /\ lastOp.op = "dispose" =>
              /\ System' = System
              /\ lastOp'.events = <<>>]_vars

\* a second dispose() after one that ended an active layer, disposed the UI and
\* removed the framebuffers of a layer and of the compositor
C11_Witness ==
    /\ lastOp.op = "dispose"
    /\ lastOp.events = <<>>
    /\ Terminal
    /\ \E id \in DOMAIN detached : detached[id].hasBeenDrawnTo
    /\ lastRender.called

\* C12: once dispose() was called, the layer map stays empty and the system holds
\* no framebuffer of a layer or of the compositor, whatever is called afterwards.
C12_DisposeTerminal ==
    lastOp.disposed =>
        /\ layers = EmptyMap
        /\ compositor.bufferA = NullFb
        /\ compositor.bufferB = NullFb

\* C13: dispose() with a layer L active runs L.end() first, with the notification
\* of the UI if one is attached, before the UI is disposed and before L's
\* framebuffer is removed; afterwards nothing is active, the layer map is empty,
\* the UI is cleared and every layer that was in the map has no framebuffer.
C13_DisposeEndsActive ==
    [][(lastOp'.op = "dispose" /\ activeLayerId # null) =>
         LET L == activeLayerId
             events == lastOp'.events
             ended == EventIn(events, "Layer.end", L)
             told == EventIn(events, "ui.scheduleThumbnailUpdate", L)
             uiGone == EventIn(events, "ui.dispose", null)
             released == EventIn(events, "framebuffer.remove", L)
         IN  /\ ended = 1
             /\ EventCount(events, "Layer.end") = 1
             /\ ui => /\ told = 2
                      /\ uiGone \in {3, 4}
                      /\ uiGone = 4 => events[3] = <<"ui.requestFlush", null>>
             /\ ~ui => (told = 0 /\ uiGone = 0)
             /\ layers[L].framebuffer # NullFb => released > ended /\ released > uiGone
             /\ layers[L].framebuffer # NullFb => detached'[L].hasBeenDrawnTo
             /\ activeLayerId' = null
             /\ layers' = EmptyMap
             /\ ~ui'
             /\ \A id \in DOMAIN layers :
                  id \in DOMAIN detached' /\ detached'[id].framebuffer = NullFb]_vars

\* dispose() was called with a UI attached while a layer with a framebuffer was
\* active, next to another layer
C13_Witness ==
    /\ lastOp.op = "dispose"
    /\ lastOp.active # null
    /\ EventAt("ui.dispose", null) # 0
    /\ EventAt("framebuffer.remove", lastOp.active) # 0
    /\ Cardinality(DOMAIN detached) = 2

\* C14: every layer in the layer map has a framebuffer, in every reachable state.
C14_BufferNonNull == \A id \in DOMAIN layers : layers[id].framebuffer # NullFb

\* C15: render() returns normally, whatever the host's factories do.
C15_RenderNeverThrows == lastOp.op = "render" => ~lastOp.threw

\* the createShader failures left for the other layers once this layer is gone
FailuresWithout(s, id, shaderFails) ==
    IF s.layers[id].framebuffer = NullFb \/ shaderFails = 0 THEN shaderFails
    ELSE shaderFails - 1

\* C16: a visible layer with opacity>0 that Compositor.render cannot composite (no
\* framebuffer, or no shader) is treated as invisible: the image on the main
\* surface is the one of rendering the list without that layer.
C16_SkippedLayerInvisible ==
    [][lastOp'.op = "render" =>
         LET args == lastOp'.args
             s1 == BeforeComposite(Called(State, "render", OtherRef, args), args[1])
             list == LayerSystem_getLayers(s1)
         IN  \A id \in DOMAIN s1.layers :
               EventIn(lastOp'.events, "pass.empty", id) # 0 =>
                 canvas' = Compositor_render(s1, Without(list, id), args[2],
                                             FailuresWithout(s1, id, args[3]),
                                             args[4]).canvas]_vars

\* the buffer an event of Compositor.render is about
BufferOf(event) ==
    IF event[1] \in {"write.bufferA", "read.bufferA", "image.bufferA"}
    THEN "bufferA" ELSE "bufferB"

Writes(events) ==
    SelectSeq(events, LAMBDA e : e[1] \in {"write.bufferA", "write.bufferB"})

Reads(events) ==
    SelectSeq(events, LAMBDA e : e[1] \in {"read.bufferA", "read.bufferB"})

Blits(events) ==
    SelectSeq(events, LAMBDA e : e[1] \in {"image.bufferA", "image.bufferB"})

\* the accumulator before the k-th pass: buffer A, then the buffer written last
Accumulator(events, k) ==
    IF k = 1 THEN "bufferA" ELSE BufferOf(Writes(events)[k - 1])

\* C17: in Compositor.render every pass writes the buffer that is not the
\* accumulator, a pass that composites a layer reads the accumulator, the buffer
\* written becomes the accumulator of the next pass, and the image blitted to the
\* main surface is the buffer written by the last pass, or buffer A without a pass.
C17_PingPong ==
    lastOp.op = "render" =>
        LET events == lastOp.events
            writes == Writes(events)
        IN  /\ \A k \in 1..Len(writes) :
                 /\ BufferOf(writes[k]) # Accumulator(events, k)
                 /\ \A i \in 1..Len(Reads(events)) :
                      Reads(events)[i][2] = writes[k][2] =>
                        BufferOf(Reads(events)[i]) = Accumulator(events, k)
            /\ \A i \in 1..Len(events) :
                 events[i][1] = "pass" =>
                   /\ i > 2
                   /\ events[i - 1][1] \in {"read.bufferA", "read.bufferB"}
                   /\ events[i - 1][2] = events[i][2]
                   /\ events[i - 2][1] \in {"write.bufferA", "write.bufferB"}
                   /\ events[i - 2][2] = events[i][2]
            /\ \A i \in 1..Len(Blits(events)) :
                 BufferOf(Blits(events)[i]) = Accumulator(events, Len(writes) + 1)

\* a render of three layers: B, A and B were written in turn and B was blitted
C17_Witness ==
    /\ lastOp.op = "render"
    /\ EventCount(lastOp.events, "pass") = 3
    /\ Len(canvas) = 3
    /\ EventAt("image.bufferB", null) # 0

\* what a fragment of a layer's framebuffer and of a mask can hold
FragmentInputs == {[rgb |-> [fn |-> "drawn"], a |-> a] : a \in {0, 50, 100}}
MaskFragments == {[r |-> r] : r \in {0, 100}}

\* the fragments the textures of an image can show: a framebuffer nothing was
\* drawn into is cleared
TexturesOf(image) ==
    {textures \in [1..Len(image) -> [layer : FragmentInputs \cup {Cleared},
                                     mask : MaskFragments]] :
        \A k \in 1..Len(image) :
            IF image[k].drawn THEN textures[k].layer \in FragmentInputs
            ELSE textures[k].layer = Cleared}

\* C18: the composite of a stack with at least one composited layer is opaque at
\* every fragment, whatever the layers and masks hold there.
C18_CompositeOpaque ==
    (lastOp.op = "render" /\ ~lastOp.threw /\ EventCount(lastOp.events, "pass") > 0) =>
        \A textures \in TexturesOf(canvas) :
            Fragment(canvas, textures, Len(canvas)).a = 100

\* the operations that resolve a reference and do nothing without a layer
Lenient ==
    {"removeLayer", "show", "hide", "setOpacity", "setBlendMode", "setLayerIndex",
     "moveLayer", "setMask", "clearMask"}

\* C19: removeLayer and the passthroughs, called with a reference that resolves to
\* no layer, change nothing, call nothing, and the passthroughs return null.
C19_MissingRefNoOp ==
    [][(lastOp'.op \in Lenient /\ _getLayerById(State, lastOp'.ref) = null) =>
         /\ System' = System
         /\ lastOp'.events = <<>>
         /\ ~lastOp'.threw
         /\ lastOp'.target = null
         /\ lastOp'.ret = null]_vars

\* setOpacity was called with the id of a removed layer while a layer is active
\* and another one exists
C19_Witness ==
    /\ lastOp.op = "setOpacity"
    /\ lastOp.target = null
    /\ lastOp.ref = IdRef(0)
    /\ activeLayerId # null
    /\ Cardinality(DOMAIN layers) = 2

\* the operations that resolve a reference
Resolving == Lenient \cup {"begin"}

\* C20: a reference is resolved by its type: a number to the layer with that id, a
\* string through the name map only, to a layer of that name, anything else to no
\* layer.
C20_ResolveByType ==
    [][lastOp'.op \in Resolving =>
         LET ref == lastOp'.ref
             before == IF lastOp'.op = "begin" THEN layers' ELSE layers
             target == lastOp'.target
         IN  CASE ref.kind = "number" ->
                    target = IF ref.id \in DOMAIN before THEN ref.id ELSE null
               [] ref.kind = "string" ->
                    IF ref.name \in DOMAIN layerNames
                       /\ layerNames[ref.name] \in DOMAIN before
                    THEN /\ target = layerNames[ref.name]
                         /\ before[target].name = ref.name
                    ELSE target = null
               [] OTHER -> target = null]_vars

\* begin("1") resolved to layer 0, which is named "1", while layer 1 exists
C20_Witness ==
    /\ lastOp.op = "begin"
    /\ lastOp.ref = NameRef("1")
    /\ lastOp.target = 0
    /\ 1 \in DOMAIN layers
    /\ layers[0].name = "1"

\* a Layer object the caller holds
Object(id) == IF id \in DOMAIN layers THEN layers[id] ELSE detached[id]

\* the positions of a Layer object in a sequence
Positions(seq, id) == {i \in 1..Len(seq) : seq[i] = id}

\* the call changed nothing of the Layer objects but the zIndex of those in seq
OnlyZIndexOf(seq) ==
    /\ DOMAIN layers' = DOMAIN layers
    /\ DOMAIN detached' = DOMAIN detached
    /\ layerOrder' = layerOrder
    /\ \A id \in DOMAIN layers :
         IF Positions(seq, id) = {} THEN layers'[id] = layers[id]
         ELSE layers'[id] = [layers[id] EXCEPT !.zIndex = layers'[id].zIndex]
    /\ \A id \in DOMAIN detached :
         IF Positions(seq, id) = {} THEN detached'[id] = detached[id]
         ELSE detached'[id] = [detached[id] EXCEPT !.zIndex = detached'[id].zIndex]

\* seq holds every layer of the system once, and nothing else
Permutation(seq) ==
    /\ Len(seq) = Cardinality(DOMAIN layers)
    /\ {seq[i] : i \in 1..Len(seq)} = DOMAIN layers

\* what follows for getLayers() when reorderLayers(seq) was called
ReorderedAs(seq) ==
    Permutation(seq) =>
        \A after \in {SortByZIndex(layers', layerOrder')} :
            /\ after = seq
            /\ seq = SortByZIndex(layers, layerOrder) =>
                 after = SortByZIndex(layers, layerOrder)

\* C21 as stated: reorderLayers(seq) sets the zIndex of the layer at position i of
\* seq to i, for every i (0-based), and changes no other layer; when seq is a
\* permutation of the layers of the system getLayers() returns seq afterwards, and
\* reorderLayers(getLayers()) leaves the render order unchanged.
C21_ReorderLayers ==
    [][lastOp'.op = "reorderLayers" =>
         \A seq \in {lastOp'.args[1]} :
            /\ \A i \in 1..Len(seq) : Object(seq[i])'.zIndex = i - 1
            /\ OnlyZIndexOf(seq)
            /\ ReorderedAs(seq)]_vars

\* C21 amended: reorderLayers(seq) sets the zIndex of every layer of seq to the
\* last position (0-based) at which seq holds it and changes nothing else; when
\* seq is a permutation of the layers of the system getLayers() returns seq
\* afterwards, and reorderLayers(getLayers()) leaves the render order unchanged.
C21_ReorderLayersLastPosition ==
    [][lastOp'.op = "reorderLayers" =>
         \A seq \in {lastOp'.args[1]} :
            /\ \A i \in 1..Len(seq) :
                 \A last \in Positions(seq, seq[i]) :
                    (\A j \in Positions(seq, seq[i]) : j <= last) =>
                        Object(seq[i])'.zIndex = last - 1
            /\ OnlyZIndexOf(seq)
            /\ ReorderedAs(seq)]_vars

\* reorderLayers was called with a layer of the system given twice, among other
\* layers: it has the zIndex of its last position
C21_Witness ==
    /\ lastOp.op = "reorderLayers"
    /\ Cardinality(DOMAIN layers) >= 2
    /\ \A seq \in {lastOp.args[1]} :
         \E i, j \in 1..Len(seq) :
            /\ i < j
            /\ seq[i] = seq[j]
            /\ seq[i] \in DOMAIN layers
            /\ layers[seq[i]].zIndex = j - 1
            /\ \E k \in 1..Len(seq) : seq[k] # seq[i] /\ seq[k] \in DOMAIN layers

\* clamp(v, 0, 1), opacity in hundredths
Clamp01(v) == IF v < 0 THEN 0 ELSE IF v > 100 THEN 100 ELSE v

\* C22: the stored opacity of every layer lies in [0,1] in every reachable state;
\* createLayer with an opacity option and setOpacity(v) store clamp(v,0,1): 0 for
\* values below 0, 1 for values above 1, the value itself inside the range.
C22_OpacityClamped ==
    /\ \A id \in DOMAIN layers : layers[id].opacity \in 0..100
    /\ lastOp.op = "setOpacity" /\ lastOp.target # null =>
         layers[lastOp.target].opacity = Clamp01(lastOp.args[1])
    /\ lastOp.op = "createLayer" /\ lastOp.ret # null =>
         /\ "opacity" \in lastOp.args[1].given =>
              layers[lastOp.ret].opacity = Clamp01(lastOp.args[1].opacity)
         /\ "opacity" \notin lastOp.args[1].given => layers[lastOp.ret].opacity = 100

\* a layer created with an opacity below 0 stores 0, and setOpacity with a value
\* above 1 has stored 1 in another layer
C22_Witness ==
    /\ lastOp.op = "setOpacity"
    /\ lastOp.target # null
    /\ lastOp.args[1] > 100
    /\ layers[lastOp.target].opacity = 100
    /\ \E id \in DOMAIN layers : id # lastOp.target /\ layers[id].opacity = 0
    /\ \E id \in DOMAIN layers : layers[id].opacity = 30

\* C23: setBlendMode(mode) stores mode when it is one of the 14 BlendModes values
\* and NORMAL for every other input; no other attribute of the layer changes.
C23_SetBlendMode ==
    [][lastOp'.op = "setBlendMode" /\ lastOp'.target # null =>
         \A id \in {lastOp'.target}, mode \in {lastOp'.args[1]} :
            /\ Len(BlendModes) = 14
            /\ Cardinality(BlendModeValues) = 14
            /\ mode \in BlendModeValues =>
                 layers'[id] = [layers[id] EXCEPT !.blendMode = mode]
            /\ mode \notin BlendModeValues =>
                 layers'[id] = [layers[id] EXCEPT !.blendMode = "NORMAL"]]_vars

\* setBlendMode with a string that is no BlendModes value has stored NORMAL in a
\* layer, next to a layer that was given EXCLUSION
C23_Witness ==
    /\ lastOp.op = "setBlendMode"
    /\ lastOp.target # null
    /\ lastOp.args[1] \in InvalidModes
    /\ layers[lastOp.target].blendMode = "NORMAL"
    /\ \E id \in DOMAIN layers : layers[id].blendMode = "EXCLUSION"

\* C29: the stored blendMode of every layer is one of the 14 BlendModes values in
\* every reachable state, also for a layer created by createLayer with a blendMode
\* option that is no BlendModes value.
C29_BlendModeValid ==
    \A id \in DOMAIN layers : layers[id].blendMode \in BlendModeValues

\* the blend function that implements a blend mode
BlendFunctionOf(mode) ==
    CASE mode = "NORMAL" -> "blendNormal"
      [] mode = "MULTIPLY" -> "blendMultiply"
      [] mode = "SCREEN" -> "blendScreen"
      [] mode = "ADD" -> "blendAdd"
      [] mode = "SUBTRACT" -> "blendSubtract"
      [] mode = "OVERLAY" -> "blendOverlay"
      [] mode = "SOFT_LIGHT" -> "blendSoftLight"
      [] mode = "HARD_LIGHT" -> "blendHardLight"
      [] mode = "COLOR_DODGE" -> "blendColorDodge"
      [] mode = "COLOR_BURN" -> "blendColorBurn"
      [] mode = "DARKEN" -> "blendDarken"
      [] mode = "LIGHTEN" -> "blendLighten"
      [] mode = "DIFFERENCE" -> "blendDifference"
      [] mode = "EXCLUSION" -> "blendExclusion"

\* opcodes the shader can be handed, in and around the range it dispatches on
Opcodes == (0 - 2)..15

\* the blend function the shader runs for an opcode
Dispatched(opcode) == applyBlendMode(opcode, "base", "blend", 100).fn

\* C24: getBlendModeIndex maps the 14 BlendModes entries one-to-one onto 0..13 in
\* the order of their declaration (NORMAL = 0 ... EXCLUSION = 13) and every other
\* input to 0; the shader's applyBlendMode dispatches each opcode to the blend
\* function of the mode that has this opcode, and every other opcode to
\* blendNormal. So every layer is composited with the function of its stored mode.
C24_BlendOpcodes ==
    /\ Len(BlendModes) = 14
    /\ \A i \in 1..Len(BlendModes) :
         /\ getBlendModeIndex(BlendModes[i]) = i - 1
         /\ Dispatched(i - 1) = BlendFunctionOf(BlendModes[i])
    /\ \A i, j \in 1..Len(BlendModes) :
         getBlendModeIndex(BlendModes[i]) = getBlendModeIndex(BlendModes[j]) => i = j
    /\ \A mode \in InvalidModes : getBlendModeIndex(mode) = 0
    /\ \A opcode \in Opcodes \ (0..13) : Dispatched(opcode) = "blendNormal"
    /\ \A id \in DOMAIN layers :
         \A mode \in {layers[id].blendMode} :
            Dispatched(Pass(layers[id]).blendMode) =
                IF mode \in BlendModeValues THEN BlendFunctionOf(mode)
                ELSE "blendNormal"

\* a layer holds the last declared mode and is composited with opcode 13, and a
\* layer holds a string that is no mode and is composited with opcode 0
C24_Witness ==
    /\ \E id \in DOMAIN layers :
         /\ layers[id].blendMode = "EXCLUSION"
         /\ Pass(layers[id]).blendMode = 13
    /\ \E id \in DOMAIN layers :
         /\ layers[id].blendMode = "SOFT_LIGHT"
         /\ Dispatched(Pass(layers[id]).blendMode) = "blendSoftLight"
    /\ \E id \in DOMAIN layers :
         /\ layers[id].blendMode \notin BlendModeValues
         /\ Pass(layers[id]).blendMode = 0

\* the measures of a surface or of a layer
Measures(x) == <<x.width, x.height, x.density>>

\* C25: a layer created by createLayer has customSize = false and the host's
\* current width, height and density when options gives none of the three; it has
\* customSize = true when options gives at least one, also when the value given
\* equals the host's; its zIndex is its id unless options gives a zIndex.
C25_CreatedLayer ==
    lastOp.op = "createLayer" /\ lastOp.ret # null =>
        \A options \in {lastOp.args[1]}, layer \in {layers[lastOp.ret]} :
            /\ options.given \cap {"width", "height", "density"} = {} =>
                 /\ ~layer.customSize
                 /\ Measures(layer) = Measures(p)
            /\ options.given \cap {"width", "height", "density"} # {} =>
                 layer.customSize
            /\ layer.zIndex = IF "zIndex" \in options.given THEN options.zIndex
                              ELSE layer.id
            /\ layer.id = lastOp.ret

\* after the host changed, a layer was created with the host's width as its width:
\* it has a size of its own, next to a layer created without measures
C25_Witness ==
    /\ lastOp.op = "createLayer"
    /\ lastOp.ret # null
    /\ p # InitialHost
    /\ "width" \in lastOp.args[1].given
    /\ lastOp.args[1].width = p.width
    /\ Measures(layers[lastOp.ret]) = Measures(p)
    /\ layers[lastOp.ret].customSize
    /\ layers[lastOp.ret].zIndex # lastOp.ret
    /\ \E id \in DOMAIN layers : ~layers[id].customSize /\ layers[id].zIndex = id

\* C26: Layer.resize(w, h, d) releases the old buffer before it allocates the new
\* one, and sets customSize to false exactly when (w, h, d) are the host's width,
\* height and pixel density at the call, to true otherwise; a layer with a size of
\* its own that is resized to the host's measures is resized again by the next
\* auto-resize, as every layer whose customSize is false.
C26_LayerResize ==
    [][/\ lastOp'.op = "layer.resize" =>
            \A id \in {lastOp'.target}, args \in {lastOp'.args} :
                \A released \in {EventIn(lastOp'.events, "framebuffer.remove", id)},
                   allocated \in {EventIn(lastOp'.events, "framebuffer.create", id)} :
                    /\ allocated # 0
                    /\ released # 0 <=> layers[id].framebuffer # NullFb
                    /\ released < allocated
                    /\ Measures(layers'[id]) = <<args[1], args[2], args[3]>>
                    /\ layers'[id].customSize <=>
                         <<args[1], args[2], args[3]>> # Measures(p)
       /\ lastOp'.op = "render" /\ autoResize /\ p # lastCanvas =>
            \A id \in DOMAIN layers :
                ~layers[id].customSize =>
                    /\ EventIn(lastOp'.events, "framebuffer.create", id) # 0
                    /\ Measures(layers'[id]) = Measures(p)
                    /\ ~layers'[id].customSize]_vars

\* a layer with a size of its own was resized to the measures of the host, which
\* are not the initial ones: its old buffer was removed, then a new one created,
\* and its customSize is false
C26_Witness ==
    /\ lastOp.op = "layer.resize"
    /\ lastOp.args[5]
    /\ p # InitialHost
    /\ <<lastOp.args[1], lastOp.args[2], lastOp.args[3]>> = Measures(p)
    /\ ~layers[lastOp.target].customSize
    /\ layers[lastOp.target].framebuffer # NullFb
    /\ 0 < EventAt("framebuffer.remove", lastOp.target)
    /\ EventAt("framebuffer.remove", lastOp.target)
          < EventAt("framebuffer.create", lastOp.target)

\* a buffer of the compositor exists, is in use and has the measures of the host
Matches(buffer, host) ==
    IF buffer = NullFb THEN FALSE
    ELSE ~buffer.removed /\ Measures(buffer) = Measures(host)

\* the compositor holds two buffers that were allocated with the measures of host
AllocatedFor(c, host) ==
    IF c.bufferA = NullFb \/ c.bufferB = NullFb THEN FALSE
    ELSE Measures(c.bufferA) = Measures(host) /\ Measures(c.bufferB) = Measures(host)

\* C27: a render() allocates the two ping-pong buffers anew, at its start, exactly
\* when the compositor has no buffers yet or the host's width, height or pixel
\* density differs from those of the last allocation; after every render() both
\* buffers exist and have the host's current measures; a render that finds the
\* host as the render before it left it reuses the same two buffers.
C27_BuffersMatchHost ==
    [][lastOp'.op = "render" =>
         \A c \in {compositor}, after \in {compositor'}, events \in {lastOp'.events} :
            \A allocates \in {EventIn(events, "bufferA.create", null) # 0} :
                /\ allocates <=> ~AllocatedFor(c, p)
                /\ allocates => EventIn(events, "bufferA.create", null) = Len(events)
                                   \/ EventIn(events, "bufferB.create", null) # 0
                /\ Matches(after.bufferA, p)
                /\ Matches(after.bufferB, p)
                /\ lastRender.called /\ lastRender.host = p =>
                     /\ ~allocates
                     /\ after.bufferA = c.bufferA
                     /\ after.bufferB = c.bufferB]_vars

\* the positions, in the events of a call, of the events named in kinds
Steps(events, kinds) == {i \in 1..Len(events) : events[i][1] \in kinds}

\* what a call does when it resizes layers, composites, and syncs the UI
ResizeEvents == {"framebuffer.remove", "framebuffer.create"}
CompositeEvents ==
    {"bufferA.remove", "bufferB.remove", "bufferA.create", "bufferB.create",
     "write.bufferA", "write.bufferB", "read.bufferA", "read.bufferB",
     "pass", "pass.empty", "image.bufferA", "image.bufferB"}
SyncEvents == {"ui.syncState"}

\* the layers composited by a call, in the order of their passes
Composited(events) ==
    LET passes == SelectSeq(events, LAMBDA e : e[1] \in {"pass", "pass.empty"})
    IN  [i \in 1..Len(passes) |-> passes[i][2]]

\* C28: in one LayerSystem.render() the host's resize is detected and the synced
\* layers are resized first (only with auto-resize on), then the full layer list
\* is composited in ascending order of zIndex, then ui.syncState() is called if a
\* UI is attached; with auto-resize off no layer is resized and the last-observed
\* measures of the host are not updated. A render that throws ends with the step
\* that threw.
C28_RenderOrder ==
    [][lastOp'.op = "render" =>
         \A events \in {lastOp'.events} :
            \A resizes \in {Steps(events, ResizeEvents)},
               composites \in {Steps(events, CompositeEvents)},
               syncs \in {Steps(events, SyncEvents)} :
                /\ \A i \in resizes : \A j \in composites \cup syncs : i < j
                /\ \A j \in composites : \A k \in syncs : j < k
                /\ ~lastOp'.threw =>
                     /\ Steps(events, {"image.bufferA", "image.bufferB"}) # {}
                     /\ Composited(events) =
                          SelectSeq(SortByZIndex(layers', layerOrder'),
                                    LAMBDA id : ~Gated(layers'[id]))
                     /\ Cardinality(syncs) = IF ui THEN 1 ELSE 0
                /\ autoResize /\ p # lastCanvas =>
                     /\ lastCanvas' = p
                     /\ \A id \in DOMAIN layers :
                          ~layers[id].customSize <=>
                              EventIn(events, "framebuffer.create", id) # 0
                /\ autoResize /\ p = lastCanvas => resizes = {} /\ lastCanvas' = p
                /\ ~autoResize =>
                     /\ resizes = {}
                     /\ lastCanvas' = lastCanvas
                     /\ layers' = layers]_vars

\* a render with auto-resize on and a UI, after the host changed: a layer was
\* resized, then layers were composited, one created later before one created
\* earlier because of its lower zIndex, then the UI was synced; a layer with a size
\* of its own was not resized
C28_Witness ==
    /\ lastOp.op = "render"
    /\ ~lastOp.threw
    /\ ui
    /\ lastRender.autoResize
    /\ \A events \in {lastOp.events} :
         /\ Len(events) > 0
         /\ events[Len(events)] = <<"ui.syncState", null>>
         /\ events[1][1] \in ResizeEvents
         /\ Len(Composited(events)) >= 2
         /\ Composited(events)[1] > Composited(events)[2]
    /\ \E id \in DOMAIN layers :
         layers[id].customSize /\ EventAt("framebuffer.create", id) = 0

\* C30: begin(X) force-ends the active layer only when it is another layer than
\* X: begin(A) while A is active does not end A, does not set A.hasBeenDrawnTo and
\* does not notify the UI.
C30_BeginSameLayer ==
    [][lastOp'.op = "begin" /\ lastOp'.active # null =>
         \A A \in {lastOp'.active}, events \in {lastOp'.events} :
            /\ EventIn(events, "Layer.end", A) # 0 => lastOp'.target # A
            /\ lastOp'.target = A =>
                 /\ EventIn(events, "Layer.end", A) = 0
                 /\ EventIn(events, "ui.scheduleThumbnailUpdate", A) = 0
                 /\ layers'[A].hasBeenDrawnTo = layers[A].hasBeenDrawnTo
                 /\ activeLayerId' = A]_vars

\* C31: when the construction of the Layer throws inside createLayer, the layer map
\* and the name map are left as they were (no partly registered layer, a
\* registration of the same name is kept), and the id allocated for the failed
\* layer is consumed: the counter only grows and every layer gets the counter's
\* value as its id, so the id is never handed out later.
C31_FailedCreate ==
    [][/\ layerIdCounter' >= layerIdCounter
       /\ lastOp'.op = "createLayer" =>
            /\ layerIdCounter' = layerIdCounter + 1
            /\ lastOp'.threw =>
                 /\ lastOp'.ret = null
                 /\ layers' = layers
                 /\ layerOrder' = layerOrder
                 /\ layerNames' = layerNames
                 /\ activeLayerId' = activeLayerId
            /\ ~lastOp'.threw =>
                 /\ lastOp'.ret = layerIdCounter
                 /\ DOMAIN layers' = DOMAIN layers \cup {layerIdCounter}]_vars

\* createLayer threw for a name that is registered: the registration is that of
\* an earlier layer, which is still in the layer map, and an id was consumed
C31_Witness ==
    /\ lastOp.op = "createLayer"
    /\ lastOp.threw
    /\ lastOp.ref.name \in DOMAIN layerNames
    /\ layerNames[lastOp.ref.name] \in DOMAIN layers
    /\ layerNames[lastOp.ref.name] < layerIdCounter - 1
    /\ layerIdCounter - 1 \notin DOMAIN layers

\* the sketch's objects and the panel's selection are as they were
NothingMoved ==
    /\ layers' = layers
    /\ layerOrder' = layerOrder
    /\ detached' = detached
    /\ panel' = panel
    /\ activeLayerId' = activeLayerId

\* C32: _moveSelectedLayer(direction) swaps the selected layer with its neighbour
\* in getLayers() order, -1 towards the top (the end of getLayers()), +1 towards
\* the bottom: the selected layer's position changes by exactly one, the other
\* layers keep their relative order, the zIndex values are 0..n-1 in that order,
\* and nothing changes when no layer is selected or the selected layer is at
\* that end already.
C32_MoveSelectedLayer ==
    [][lastOp'.op = "ui.move" =>
         \A direction \in {lastOp'.args[1]}, selected \in {panel.selectedLayerId},
            before \in {SortByZIndex(layers, layerOrder)},
            after \in {SortByZIndex(layers', layerOrder')} :
             \A at \in {IndexOf(before, selected)} :
                 IF selected = null \/ at = 0
                    \/ at - direction < 1 \/ at - direction > Len(before)
                 THEN NothingMoved
                 ELSE /\ IndexOf(after, selected) = at - direction
                      /\ Without(after, selected) = Without(before, selected)
                      /\ \A i \in 1..Len(after) : layers'[after[i]].zIndex = i - 1
                      /\ OnlyZIndexOf(before)
                      /\ panel'.selectedLayerId = selected]_vars

\* a move was made among three layers and the order of getLayers() is no longer
\* the order of creation
C32_Witness ==
    /\ lastOp.op = "ui.move"
    /\ EventAt("reorderLayers", null) # 0
    /\ Cardinality(DOMAIN layers) = 3
    /\ LayerSystem_getLayers(State) # layerOrder
    /\ \A id \in DOMAIN layers : layers[id].zIndex \in 0..2

\* a move was asked for with the selected layer at that end
C32_WitnessAtEnd ==
    /\ lastOp.op = "ui.move"
    /\ EventAt("reorderLayers", null) = 0
    /\ panel.selectedLayerId \in DOMAIN layers
    /\ Cardinality(DOMAIN layers) >= 2

\* the last call was a move that swapped the layer id with its neighbour
SwappedByMove(id) ==
    /\ lastOp.op = "ui.move"
    /\ EventAt("ui.markThumbnailsDirty", id) # 0

Dirty(id) == id \in Range(panel.dirty)

\* C33: after a move swapped two layers, both ids are in the dirty set, and, the
\* host running every flush callback it was handed, each of them leaves the dirty
\* set again, also with thumbnailAutoUpdate off and no flush pending at the move.
\* The second part is asked of the moves after which the sketch can still make a
\* call.
C33_MovedThumbnailsRefreshed ==
    \A id \in 0..(MaxLayers - 1) :
        /\ [](SwappedByMove(id) => Dirty(id))
        /\ (SwappedByMove(id) /\ Dirty(id) /\ lastOp.step < MaxOps) ~> ~Dirty(id)

\* the part of C33 that the code keeps: the two swapped ids are marked dirty
C33_MarkedDirty ==
    \A id \in 0..(MaxLayers - 1) : SwappedByMove(id) => Dirty(id)

\* a move swapped two layers with thumbnailAutoUpdate off and no flush pending:
\* both ids are dirty and the host holds no callback
C33_Stuck ==
    /\ lastOp.op = "ui.move"
    /\ ~panel.options.thumbnailAutoUpdate
    /\ Cardinality({id \in DOMAIN layers : SwappedByMove(id) /\ Dirty(id)}) = 2
    /\ ~panel.flushHandle
    /\ panel.callbacks = 0
    /\ lastOp.step < MaxOps

\* the buffers of the layers and of the compositor are released
Released ==
    /\ DOMAIN layers = {}
    /\ \A id \in DOMAIN detached : detached[id].framebuffer = NullFb
    /\ compositor.bufferA = NullFb
    /\ compositor.bufferB = NullFb

\* C34: once the host has run the remove hook on the p5 instance on which
\* createLayerSystem() was called, the LayerSystem has been disposed: dispose() was
\* called and the buffers of its layers and of its compositor are released.
C34_RemoveDisposes ==
    lastOp.op = "lifecycles.remove" => lastOp.disposed /\ Released

\* the remove hook ran and the system still holds a layer with its buffer
C34_NotDisposed ==
    /\ lastOp.op = "lifecycles.remove"
    /\ ~lastOp.disposed
    /\ \E id \in DOMAIN layers : layers[id].framebuffer # NullFb
    /\ compositor.bufferA # NullFb

\* the call asked the host for a flush callback
Requested(events) == EventCount(events, "ui.requestFlush")

\* C35: at most one flush callback is pending at any time, and it is pending
\* exactly while the handle is set; a flush is requested only when no handle is
\* outstanding and the dirty set is not empty (and stays pending to the end of the
\* call, unless the call is dispose(), which cancels it); a run of the flush callback clears
\* the handle, takes at most one id (the first) from the dirty set and requests
\* the next run exactly when the dirty set is still not empty; after
\* LayerUI.dispose() no flush is pending and the dirty set, the capture-needed set
\* and the cache are empty.
C35_OneFlushPending ==
    [][/\ panel'.callbacks \in {0, 1}
       /\ panel'.flushHandle <=> panel'.callbacks = 1
       /\ \A requests \in {Requested(lastOp'.events)} :
            /\ requests <= 1
            /\ (requests = 1 /\ lastOp'.op # "dispose") =>
                 /\ panel'.dirty # <<>>
                 /\ panel'.flushHandle
                 /\ ~panel.flushHandle \/ lastOp'.op \in {"ui.flush", "createUI"}
            /\ lastOp'.op = "ui.flush" =>
                 /\ panel.flushHandle
                 /\ panel'.dirty = IF panel.dirty = <<>> THEN <<>> ELSE Tail(panel.dirty)
                 /\ requests = 1 <=> panel'.dirty # <<>>
                 /\ panel'.flushHandle <=> panel'.dirty # <<>>
       /\ (lastOp'.op = "dispose" /\ ui) =>
            /\ EventIn(lastOp'.events, "ui.dispose", null) # 0
            /\ panel'.callbacks = 0
            /\ ~panel'.flushHandle
            /\ panel'.dirty = <<>>
            /\ panel'.captureNeeded = {}
            /\ DOMAIN panel'.cache = {}]_vars

\* a run of the flush callback took one id, left another in the dirty set and
\* asked for the next run
C35_Witness ==
    /\ lastOp.op = "ui.flush"
    /\ Requested(lastOp.events) = 1
    /\ panel.dirty # <<>>
    /\ panel.callbacks = 1
    /\ \E id \in DOMAIN panel.cache : panel.cache[id]

\* the system was disposed with a panel attached that had thumbnails cached
C35_WitnessDisposed ==
    /\ lastOp.op = "dispose"
    /\ EventAt("ui.dispose", null) # 0
    /\ EventAt("ui.drawThumbnail", 0) = 0
    /\ panel.callbacks = 0
    /\ \E id \in DOMAIN detached : detached[id].hasBeenDrawnTo

\* C36: in every reachable state activeLayerId is none or the id of a layer that
\* is in the layer map, whatever sequence of createLayer, begin, end, removeLayer,
\* render and dispose was called.
C36_ActiveLayerExists ==
    activeLayerId = null \/ activeLayerId \in DOMAIN layers

\* dispose() was called while a layer was active: no layer is active afterwards
C36_Witness ==
    /\ lastOp.op = "dispose"
    /\ lastOp.active # null
    /\ EventAt("Layer.end", lastOp.active) # 0
    /\ activeLayerId = null
    /\ lastOp.active \in DOMAIN detached

\* the active layer was removed: no layer is active afterwards
C36_WitnessRemoved ==
    /\ lastOp.op = "removeLayer"
    /\ lastOp.active # null
    /\ lastOp.active = lastOp.target
    /\ activeLayerId = null
    /\ DOMAIN layers # {}

\* C37: every entry name -> id of the name map refers to a layer that is in the
\* layer map and whose name is that key (no dangling registration), whatever
\* sequence of createLayer, removeLayer and dispose was called.
C37_NamesRegistered ==
    \A name \in DOMAIN layerNames :
        /\ layerNames[name] \in DOMAIN layers
        /\ layers[layerNames[name]].name = name

\* the system was disposed and a name is still registered, to a layer that is gone
C37_Dangling ==
    /\ lastOp.op = "dispose"
    /\ DOMAIN layers = {}
    /\ "a" \in DOMAIN layerNames
    /\ layerNames["a"] \in DOMAIN detached

\* C38: removeLayer unregisters only the name registration of the layer it
\* removes: a name that resolved to another layer before removeLayer(X) resolves
\* to that layer afterwards.
C38_RemoveKeepsOtherNames ==
    [][lastOp'.op = "removeLayer" =>
         \A name \in DOMAIN layerNames :
             (layerNames[name] \in DOMAIN layers /\ layerNames[name] # lastOp'.target) =>
                 /\ name \in DOMAIN layerNames'
                 /\ layerNames'[name] = layerNames[name]
                 /\ layerNames[name] \in DOMAIN layers']_vars

\* the earlier of two layers named "a" was removed by its id: the later one is in
\* the layer map and "a" is registered no more
C38_Unregistered ==
    /\ lastOp.op = "removeLayer"
    /\ lastOp.ref = IdRef(0)
    /\ lastOp.target = 0
    /\ 1 \in DOMAIN layers
    /\ layers[1].name = "a"
    /\ detached[0].name = "a"
    /\ "a" \notin DOMAIN layerNames

\* the layer has the size and density the host has
SizedAsHost(layer) ==
    /\ layer.width = p.width
    /\ layer.height = p.height
    /\ layer.density = p.density

\* C39: right after a render() made with auto-resize enabled, every layer with
\* customSize = false has the width, height and density the host has now, whatever
\* host resizes, createLayer, setAutoResize and render calls came before.
C39_SyncedAfterRender ==
    (lastOp.op = "render" /\ ~lastOp.threw /\ autoResize) =>
        \A id \in DOMAIN layers : ~layers[id].customSize => SizedAsHost(layers[id])

\* a render with auto-resize enabled, made at the host size of the previous render,
\* left a layer that follows the host at another size
C39_StaleSize ==
    /\ lastOp.op = "render"
    /\ ~lastOp.threw
    /\ autoResize
    /\ lastRender.before.called
    /\ lastRender.before.host = p
    /\ lastCanvas = p
    /\ \E id \in DOMAIN layers :
         /\ ~layers[id].customSize
         /\ ~SizedAsHost(layers[id])
         /\ layers[id].framebuffer # NullFb

\* the Layer object id after the step, in the layer map or with its holder
ObjectAfter(id) == IF id \in DOMAIN layers' THEN layers'[id] ELSE detached'[id]

\* C40: hasBeenDrawnTo is false when the layer is created; it turns true only in
\* a call in which end() runs on that layer while its buffer is not null, the
\* layer being the active one, made so by a begin(); and it never turns false
\* again, not when a resize replaces the buffer, not when the layer is removed.
C40_HasBeenDrawnTo ==
    [][/\ \A id \in DOMAIN layers' \ (DOMAIN layers \cup DOMAIN detached) :
            ~layers'[id].hasBeenDrawnTo
       /\ \A id \in DOMAIN layers \cup DOMAIN detached :
            \A before \in {Object(id)}, after \in {ObjectAfter(id)} :
                /\ before.hasBeenDrawnTo => after.hasBeenDrawnTo
                /\ (~before.hasBeenDrawnTo /\ after.hasBeenDrawnTo) =>
                     /\ EventIn(lastOp'.events, "Layer.end", id) # 0
                     /\ before.framebuffer # NullFb
                     /\ before.framebuffer.begun
                     /\ activeLayerId = id
                     /\ lastOp'.active = id]_vars

\* a render replaced the buffer of a layer that was drawn to: the new buffer is
\* untouched and the layer still counts as drawn to
C40_Witness ==
    /\ lastOp.op = "render"
    /\ \E id \in DOMAIN layers :
         /\ EventAt("framebuffer.create", id) # 0
         /\ layers[id].hasBeenDrawnTo
         /\ layers[id].framebuffer # NullFb
         /\ ~layers[id].framebuffer.drawn
====
